---- MODULE Spec2Model ----
(***************************************************************************)
(* A model of looprock/event_db: the in-memory session store and its       *)
(* cookie middleware (internal/auth), the token-protected event API        *)
(* (internal/api) and the SQL data-access layer (internal/database).       *)
(*                                                                         *)
(* Go strings are TLA+ strings; a character is a string of length one.     *)
(* An optional value (a nil pointer, an absent cookie) is a sequence of    *)
(* length zero or one.                                                     *)
(***************************************************************************)
EXTENDS Integers, Sequences, FiniteSets, TLC

VARIABLES
    \* ---- the web process: auth.Auth and its request goroutines ----
    users,      \* Auth.users: username -> User
    sessions,   \* Auth.sessions: session id -> Session
    mu,         \* Auth.mu, a sync.RWMutex
    clock,      \* time.Now(), in hours
    pc,         \* where each goroutine is
    ctx,        \* each goroutine's request and locals
    resp,       \* the last response each goroutine has written
    crashed,    \* the Go runtime has ended the process (fatal error)
    issued,     \* history: the session ids CreateSession has handed out
    loggedOut,  \* history: session ids a finished HandleLogout carried
    \* ---- the event store: the API process, the dashboard handlers, Postgres ----
    APIToken,   \* cfg.Server.APIToken, the token AuthMiddleware is built with
    db,         \* the Postgres database: tables events and event_logs, their SERIALs
    dbClock,    \* time.Now() as the inserts see it
    reply,      \* the last request served and the response written for it
    stored,     \* history: id -> the EventRequest StoreEvent stored, until updated or deleted
    deleted,    \* history: the ids whose HandleDeleteEvent succeeded
    \* ---- text handling (internal/utils, flash cookies) and scripts/migrate.go ----
    call,       \* the last call of a text function: its name, arguments and result
    mig         \* the migration run: the directory, the sorted files, the loop's position

authVars == <<users, sessions, mu, clock, pc, ctx, resp, crashed, issued, loggedOut>>

dbVars == <<APIToken, db, dbClock, reply, stored, deleted>>

libVars == <<call, mig>>

vars == <<authVars, dbVars, libVars>>

----------------------------------------------------------------------------
(* Bounds of the model *)

\* session ids crypto/rand can hand out in a run
MaxSessions == 2
\* the clock stops advancing here (hours)
MaxTime == 48
\* the clock advances in steps of this many hours
TickStep == 24
\* rows the events table's SERIAL hands out ids for
MaxEvents == 2
\* the dashboard's edit form is served while event_logs' SERIAL is at most this
MaxLogs == 2
\* the lines of a generated text
MaxLines == 3
\* the parts of a generated multipart message
MaxParts == 2
\* the files of a migrations directory
MaxFiles == 3
\* inserts that fall on the calendar's first day
TicksPerDay == 1

----------------------------------------------------------------------------
(* Optional values *)

Nil == <<>>
Some(x) == <<x>>
IsNil(o) == o = <<>>
Val(o) == o[1]

----------------------------------------------------------------------------
(* internal/auth: the in-memory user and session store *)

\* 24 * time.Hour, in hours
SessionTTL == 24

Workers == {"w1", "w2"}
Main == "main"
Goroutines == Workers \cup {Main}

SidPool == 1..MaxSessions

\* bcrypt.GenerateFromPassword / CompareHashAndPassword: a hash matches exactly
\* the password it was made from
Bcrypt(password) == <<"bcrypt", password>>
CompareHashAndPassword(hash, password) == hash = Bcrypt(password)

\* the login forms submitted: (username, password)
Credentials == {<<"admin", "admin123">>, <<"admin", "letmein">>, <<"guest", "admin123">>}

\* sync.RWMutex: one writer or any number of readers. A goroutine whose Lock
\* or RLock call blocks stays at the call until it can take the lock. (That a
\* blocked Lock call also holds back later RLock calls only removes
\* interleavings.)
NoOne == "-"
MutexFree == [writer |-> NoOne, readers |-> {}]
CanRLock(m) == m.writer = NoOne
RLock(m, g) == [m EXCEPT !.readers = @ \cup {g}]
RUnlock(m, g) == [m EXCEPT !.readers = @ \ {g}]
CanLock(m) == m.writer = NoOne /\ m.readers = {}
Lock(m, g) == [m EXCEPT !.writer = g]
Unlock(m, g) == [m EXCEPT !.writer = NoOne]

\* time.Now().After(t)
AfterOrEqual(now, t) == now >= t
After(now, t) == now > t

\* the statements that read or write Auth.sessions
SessionWritePoints == {"cs_write", "ds_write", "gs_delete"}
SessionAccessPoints == SessionWritePoints \cup {"gs_lookup"}
\* the statements that read or write Auth.users
UserWritePoints == {"cu_write"}
UserAccessPoints == UserWritePoints \cup {"idu_read"}

\* a goroutine's request (route, cookie, form) and its locals: the *User and
\* *Session it holds, and for GetSession the error it returned, whether the
\* id was, when it looked, a stored session not past its ExpiresAt (live),
\* and whether that session's UserID was then a user's ID (owner)
NoCtx == [route |-> "-", cookie |-> Nil, cred |-> <<"", "">>, stale |-> FALSE,
          user |-> Nil, session |-> Nil, gs |-> Nil]
\* a response: status, Location, the session cookie set or cleared, and
\* whether the wrapped handler was invoked (with what the request was)
NoResp == [route |-> "-", cookie |-> Nil, status |-> 0, location |-> "",
           setCookie |-> Nil, cleared |-> FALSE, next |-> FALSE,
           stale |-> FALSE, user |-> Nil, gs |-> Nil]

\* Postgres after the migration: both tables empty, both SERIALs at their start
EmptyDb == [events |-> <<>>, event_logs |-> <<>>, events_id_seq |-> 1, event_logs_id_seq |-> 1]

\* no request served yet
NoReply == [op |-> "-", req |-> <<>>, status |-> 0, ran |-> FALSE, aborted |-> FALSE,
            event |-> Nil, events |-> <<>>, flash |-> "", location |-> "", query |-> Nil]

\* no text function called yet
NoCall == [fn |-> "-", args |-> <<>>, result |-> <<>>]
\* the migration script not started
NoRun == [dir |-> {}, files |-> <<>>, i |-> 0, executed |-> <<>>, failed |-> Nil,
          state |-> "-"]
LibIdle ==
    /\ call = NoCall
    /\ mig = NoRun

\* the event store while only the web process's sessions are looked at
DbIdle ==
    /\ LibIdle
    /\ APIToken = "secret"
    /\ db = EmptyDb
    /\ dbClock = 0
    /\ reply = NoReply
    /\ stored = <<>>
    /\ deleted = {}

InitAuth ==
    /\ DbIdle
    /\ users = <<>>
    /\ sessions = <<>>
    /\ mu = MutexFree
    /\ clock = 0
    /\ pc = [g \in Goroutines |-> IF g = Main THEN "idu_rlock" ELSE "idle"]
    /\ ctx = [g \in Goroutines |-> NoCtx]
    /\ resp = [g \in Goroutines |-> NoResp]
    /\ crashed = FALSE
    /\ issued = {}
    /\ loggedOut = {}

Goto(g, label) == pc' = [pc EXCEPT ![g] = label]

\* Adding a key to a map, and deleting one
MapPut(m, k, v) == [x \in DOMAIN m \cup {k} |-> IF x = k THEN v ELSE m[x]]
MapDelete(m, k) == [x \in DOMAIN m \ {k} |-> m[x]]

----------------------------------------------------------------------------
(* a.mu.RLock() / a.mu.Lock(): the first statement of every Auth method *)

AfterRLock(label) ==
    CASE label = "idu_rlock" -> "idu_read"
      [] label = "gs_rlock" -> "gs_lookup"

AfterLock(label) ==
    CASE label = "cu_lock" -> "cu_write"
      [] label = "cs_lock" -> "cs_write"
      [] label = "ds_lock" -> "ds_write"

MuRLock(g) ==
    /\ ~crashed
    /\ pc[g] \in {"idu_rlock", "gs_rlock"}
    /\ CanRLock(mu)
    /\ mu' = RLock(mu, g)
    /\ Goto(g, AfterRLock(pc[g]))
    /\ UNCHANGED <<libVars, dbVars, users, sessions, clock, ctx, resp, crashed, issued, loggedOut>>

MuLock(g) ==
    /\ ~crashed
    /\ pc[g] \in {"cu_lock", "cs_lock", "ds_lock"}
    /\ CanLock(mu)
    /\ mu' = Lock(mu, g)
    /\ Goto(g, AfterLock(pc[g]))
    /\ UNCHANGED <<libVars, dbVars, users, sessions, clock, ctx, resp, crashed, issued, loggedOut>>

----------------------------------------------------------------------------
(* main: auth.New(), then InitializeDefaultUsers, then the server starts *)

IduRead(g) ==
    /\ ~crashed
    /\ pc[g] = "idu_read"
    /\ ctx' = [ctx EXCEPT ![g].user = IF "admin" \in DOMAIN users THEN Some(users["admin"]) ELSE Nil]
    /\ Goto(g, "idu_runlock")
    /\ UNCHANGED <<libVars, dbVars, users, sessions, mu, clock, resp, crashed, issued, loggedOut>>

IduRUnlock(g) ==
    /\ ~crashed
    /\ pc[g] = "idu_runlock"
    /\ mu' = RUnlock(mu, g)
    /\ Goto(g, IF IsNil(ctx[g].user) THEN "cu_lock" ELSE "serving")
    /\ UNCHANGED <<libVars, dbVars, users, sessions, clock, ctx, resp, crashed, issued, loggedOut>>

\* CreateUser(username, password, role), under the write lock
CreateUser(m, username, password, role, now) ==
    IF username \in DOMAIN m
    THEN m
    ELSE MapPut(m, username,
                [ID |-> Cardinality(DOMAIN m) + 1, Username |-> username,
                 PasswordHash |-> Bcrypt(password), Role |-> role, CreatedAt |-> now])

CuWrite(g) ==
    /\ ~crashed
    /\ pc[g] = "cu_write"
    /\ users' = CreateUser(users, "admin", "admin123", "admin", clock)
    /\ Goto(g, "cu_unlock")
    /\ UNCHANGED <<libVars, dbVars, sessions, mu, clock, ctx, resp, crashed, issued, loggedOut>>

CuUnlock(g) ==
    /\ ~crashed
    /\ pc[g] = "cu_unlock"
    /\ mu' = Unlock(mu, g)
    /\ Goto(g, "serving")
    /\ UNCHANGED <<libVars, dbVars, users, sessions, clock, ctx, resp, crashed, issued, loggedOut>>

Serving == pc[Main] = "serving"

----------------------------------------------------------------------------
(* time passes *)

Tick ==
    /\ ~crashed
    /\ clock + TickStep <= MaxTime
    /\ clock' = clock + TickStep
    /\ UNCHANGED <<libVars, dbVars, users, sessions, mu, pc, ctx, resp, crashed, issued, loggedOut>>

----------------------------------------------------------------------------
(* a handler writes its response and returns *)

Respond(w, r) ==
    /\ resp' = [resp EXCEPT ![w] = r]
    /\ ctx' = [ctx EXCEPT ![w] = NoCtx]
    /\ Goto(w, "done")

\* the goroutine is free for the next request
ServeDone(w) ==
    /\ ~crashed
    /\ pc[w] = "done"
    /\ resp' = [resp EXCEPT ![w] = NoResp]
    /\ Goto(w, "idle")
    /\ UNCHANGED <<libVars, dbVars, users, sessions, mu, clock, ctx, crashed, issued, loggedOut>>

----------------------------------------------------------------------------
(* POST /login: HandleLoginPost -> Authenticate -> CreateSession *)

\* logins still running; each may draw a session id
LoginsInFlight == {v \in Workers : ctx[v].route = "POST /login"}

HandleLoginPost(w, cred) ==
    /\ ~crashed
    /\ Serving
    /\ pc[w] = "idle"
    /\ Cardinality(issued) + Cardinality(LoginsInFlight) < MaxSessions
    /\ ctx' = [ctx EXCEPT ![w] = [NoCtx EXCEPT !.route = "POST /login", !.cred = cred]]
    /\ Goto(w, "au")
    /\ UNCHANGED <<libVars, dbVars, users, sessions, mu, clock, resp, crashed, issued, loggedOut>>

\* Authenticate(username, password): the user, or nil with an error
Authenticate(m, username, password) ==
    IF username \notin DOMAIN m
    THEN Nil
    ELSE IF ~CompareHashAndPassword(m[username].PasswordHash, password)
         THEN Nil
         ELSE Some(m[username])

\* Authenticate runs under the read lock, from RLock to RUnlock: it only
\* reads users, which nothing writes once the server runs. HandleLoginPost
\* redirects back on an error
AuRead(w) ==
    /\ ~crashed
    /\ pc[w] = "au"
    /\ CanRLock(mu)
    /\ LET user == Authenticate(users, ctx[w].cred[1], ctx[w].cred[2])
       IN IF IsNil(user)
          THEN Respond(w, [NoResp EXCEPT !.route = "POST /login", !.status = 303,
                                         !.location = "/login?error"])
          ELSE /\ ctx' = [ctx EXCEPT ![w].user = user]
               /\ Goto(w, "cs_lock")
               /\ UNCHANGED resp
    /\ UNCHANGED <<libVars, dbVars, users, sessions, mu, clock, crashed, issued, loggedOut>>

\* the session ids rand.Read can produce: 32 random bytes, taken never to
\* repeat an id handed out before
FreshSessionIDs == SidPool \ issued
AnySessionIDs == SidPool
RandomSessionIDs == FreshSessionIDs

\* the Session that CreateSession(userID) builds
NewSession(sessionID, userID, now) ==
    [ID |-> sessionID, UserID |-> userID, CreatedAt |-> now, ExpiresAt |-> now + SessionTTL]

\* CreateSession, under the write lock; randOk: rand.Read returned no error
CsWrite(w, sessionID, randOk) ==
    /\ ~crashed
    /\ pc[w] = "cs_write"
    /\ sessionID \in RandomSessionIDs
    /\ IF randOk
       THEN /\ sessions' = MapPut(sessions, sessionID, NewSession(sessionID, Val(ctx[w].user).ID, clock))
            /\ issued' = issued \cup {sessionID}
            /\ ctx' = [ctx EXCEPT ![w].session = Some(sessions'[sessionID])]
       ELSE /\ ctx' = [ctx EXCEPT ![w].session = Nil]
            /\ UNCHANGED <<sessions, issued>>
    /\ Goto(w, "cs_unlock")
    /\ UNCHANGED <<libVars, dbVars, users, mu, clock, resp, crashed, loggedOut>>

\* CreateSession returns; HandleLoginPost sets the cookie and redirects
CsUnlock(w) ==
    /\ ~crashed
    /\ pc[w] = "cs_unlock"
    /\ mu' = Unlock(mu, w)
    /\ Respond(w, IF IsNil(ctx[w].session)
                  THEN [NoResp EXCEPT !.route = "POST /login", !.status = 303,
                                      !.location = "/login?error"]
                  ELSE [NoResp EXCEPT !.route = "POST /login", !.status = 303, !.location = "/",
                                      !.setCookie = Some(Val(ctx[w].session).ID)])
    /\ UNCHANGED <<libVars, dbVars, users, sessions, clock, crashed, issued, loggedOut>>

----------------------------------------------------------------------------
(* /logout: HandleLogout -> DeleteSession *)

\* the cookies a request can carry: none, a session id that was handed out,
\* or a made-up value (32 random bytes are taken not to be guessed before
\* CreateSession draws them)
MadeUpID == MaxSessions + 1
Cookies == {Nil} \cup {Some(s) : s \in SidPool \cup {MadeUpID}}
CanPresent(cookie) ==
    IF IsNil(cookie) THEN TRUE ELSE Val(cookie) \in issued \cup {MadeUpID}

IsStale(cookie) == ~IsNil(cookie) /\ Val(cookie) \in loggedOut

HandleLogout(w, cookie) ==
    /\ ~crashed
    /\ Serving
    /\ pc[w] = "idle"
    /\ CanPresent(cookie)
    /\ IF IsNil(cookie)
       THEN Respond(w, [NoResp EXCEPT !.route = "/logout", !.status = 303,
                                      !.location = "/login", !.cleared = TRUE])
       ELSE /\ ctx' = [ctx EXCEPT ![w] = [NoCtx EXCEPT !.route = "/logout", !.cookie = cookie,
                                                       !.stale = IsStale(cookie)]]
            /\ Goto(w, "ds_lock")
            /\ UNCHANGED resp
    /\ UNCHANGED <<libVars, dbVars, users, sessions, mu, clock, crashed, issued, loggedOut>>

\* DeleteSession(sessionID), under the write lock
DeleteNothing(m, sessionID) == m
DeleteSession(m, sessionID) == MapDelete(m, sessionID)

DsWrite(w) ==
    /\ ~crashed
    /\ pc[w] = "ds_write"
    /\ sessions' = DeleteSession(sessions, Val(ctx[w].cookie))
    /\ Goto(w, "ds_unlock")
    /\ UNCHANGED <<libVars, dbVars, users, mu, clock, ctx, resp, crashed, issued, loggedOut>>

\* DeleteSession returns; HandleLogout clears the cookie and redirects
DsUnlock(w) ==
    /\ ~crashed
    /\ pc[w] = "ds_unlock"
    /\ mu' = Unlock(mu, w)
    /\ Respond(w, [NoResp EXCEPT !.route = "/logout", !.cookie = ctx[w].cookie,
                                 !.status = 303, !.location = "/login", !.cleared = TRUE])
    /\ loggedOut' = loggedOut \cup {Val(ctx[w].cookie)}
    /\ UNCHANGED <<libVars, dbVars, users, sessions, clock, crashed, issued>>

----------------------------------------------------------------------------
(* a protected route: RequireAuth -> GetSession -> GetUserByID -> next *)

RedirectToLogin(c, cleared) ==
    [NoResp EXCEPT !.route = "protected", !.cookie = c.cookie, !.status = 303,
                   !.location = "/login", !.cleared = cleared,
                   !.stale = c.stale, !.gs = c.gs, !.user = c.user]

RequireAuth(w, cookie) ==
    /\ ~crashed
    /\ Serving
    /\ pc[w] = "idle"
    /\ CanPresent(cookie)
    /\ IF IsNil(cookie)
       THEN Respond(w, RedirectToLogin(NoCtx, FALSE))
       ELSE /\ ctx' = [ctx EXCEPT ![w] = [NoCtx EXCEPT !.route = "protected", !.cookie = cookie,
                                                       !.stale = IsStale(cookie)]]
            /\ Goto(w, "gs_rlock")
            /\ UNCHANGED resp
    /\ UNCHANGED <<libVars, dbVars, users, sessions, mu, clock, crashed, issued, loggedOut>>

\* GetSession(sessionID), the lookup and the expiry test: the error returned
GetSessionNoExpiry(m, sessionID, now) ==
    IF sessionID \notin DOMAIN m THEN "session not found" ELSE "nil"
GetSessionErr(m, sessionID, now) ==
    IF sessionID \notin DOMAIN m
    THEN "session not found"
    ELSE IF After(now, m[sessionID].ExpiresAt)
         THEN "session expired"
         ELSE "nil"

GsLookup(w) ==
    /\ ~crashed
    /\ pc[w] = "gs_lookup"
    /\ LET id == Val(ctx[w].cookie)
           err == GetSessionErr(sessions, id, clock)
           live == \E s \in DOMAIN sessions : s = id /\ clock <= sessions[s].ExpiresAt
           owner == live /\ \E name \in DOMAIN users : users[name].ID = sessions[id].UserID
       IN /\ ctx' = [ctx EXCEPT ![w].session = IF err = "nil" THEN Some(sessions[id]) ELSE Nil,
                                ![w].gs = Some([err |-> err, live |-> live, owner |-> owner])]
          /\ Goto(w, IF err = "session expired" THEN "gs_delete" ELSE "gs_runlock")
    /\ UNCHANGED <<libVars, dbVars, users, sessions, mu, clock, resp, crashed, issued, loggedOut>>

\* GetSession: delete(a.sessions, sessionID), with only the read lock held
GsDelete(w) ==
    /\ ~crashed
    /\ pc[w] = "gs_delete"
    /\ sessions' = MapDelete(sessions, Val(ctx[w].cookie))
    /\ Goto(w, "gs_runlock")
    /\ UNCHANGED <<libVars, dbVars, users, mu, clock, ctx, resp, crashed, issued, loggedOut>>

\* That delete while another goroutine reads or writes the map is a data race;
\* the Go runtime may end the process with "fatal error: concurrent map
\* read and map write" (or "concurrent map writes")
ConcurrentMapAccess(w) ==
    /\ ~crashed
    /\ pc[w] = "gs_delete"
    /\ \E v \in Goroutines \ {w} : pc[v] \in SessionAccessPoints
    /\ crashed' = TRUE
    /\ UNCHANGED <<libVars, dbVars, users, sessions, mu, clock, pc, ctx, resp, issued, loggedOut>>

\* GetSession returns; RequireAuth clears the cookie and redirects on an error
GsRUnlock(w) ==
    /\ ~crashed
    /\ pc[w] = "gs_runlock"
    /\ mu' = RUnlock(mu, w)
    /\ IF IsNil(ctx[w].session)
       THEN Respond(w, RedirectToLogin(ctx[w], TRUE))
       ELSE /\ Goto(w, "gu")
            /\ UNCHANGED <<ctx, resp>>
    /\ UNCHANGED <<libVars, dbVars, users, sessions, clock, crashed, issued, loggedOut>>

\* GetUserByID(userID): the user with that ID, or nil
GetUserByID(m, userID) ==
    IF \E name \in DOMAIN m : m[name].ID = userID
    THEN Some(m[CHOOSE name \in DOMAIN m : m[name].ID = userID])
    ELSE Nil

\* GetUserByID runs under the read lock, from RLock to RUnlock; then
\* RequireAuth redirects, or calls next.ServeHTTP
GuScan(w) ==
    /\ ~crashed
    /\ pc[w] = "gu"
    /\ CanRLock(mu)
    /\ LET user == GetUserByID(users, Val(ctx[w].session).UserID)
       IN Respond(w, IF IsNil(user)
                     THEN RedirectToLogin(ctx[w], TRUE)
                     ELSE [NoResp EXCEPT !.route = "protected", !.cookie = ctx[w].cookie,
                                         !.next = TRUE, !.stale = ctx[w].stale,
                                         !.gs = ctx[w].gs, !.user = user])
    /\ UNCHANGED <<libVars, dbVars, users, sessions, mu, clock, crashed, issued, loggedOut>>

----------------------------------------------------------------------------

NextAuth ==
    \/ \E g \in Goroutines : MuRLock(g) \/ MuLock(g)
    \/ IduRead(Main) \/ IduRUnlock(Main) \/ CuWrite(Main) \/ CuUnlock(Main)
    \/ Tick
    \/ \E w \in Workers : ServeDone(w)
    \/ \E w \in Workers, cred \in Credentials : HandleLoginPost(w, cred)
    \/ \E w \in Workers : AuRead(w) \/ CsUnlock(w)
    \/ \E w \in Workers, sessionID \in SidPool, randOk \in BOOLEAN : CsWrite(w, sessionID, randOk)
    \/ \E w \in Workers, cookie \in Cookies : HandleLogout(w, cookie) \/ RequireAuth(w, cookie)
    \/ \E w \in Workers : DsWrite(w) \/ DsUnlock(w)
    \/ \E w \in Workers : GsLookup(w) \/ GsDelete(w) \/ ConcurrentMapAccess(w) \/ GsRUnlock(w)
    \/ \E w \in Workers : GuScan(w)

SpecAuth == InitAuth /\ [][NextAuth]_vars

----------------------------------------------------------------------------
(* Go's strings package, on the characters the model uses *)

\* s[i-1], as a string of length one
Char(s, i) == SubSeq(s, i, i)
\* s[i-1:]
From(s, i) == SubSeq(s, i, Len(s))

HasPrefix(s, prefix) ==
    Len(s) >= Len(prefix) /\ SubSeq(s, 1, Len(prefix)) = prefix

TrimPrefix(s, prefix) ==
    IF HasPrefix(s, prefix) THEN From(s, Len(prefix) + 1) ELSE s

\* the characters of a cutset string
CharsOf(cutset) == {Char(cutset, i) : i \in 1..Len(cutset)}

\* unicode.IsSpace, for ASCII
Whitespace == {" ", "\t", "\n", "\r", "\f"}

RECURSIVE TrimLeftSet(_, _)
TrimLeftSet(s, chars) ==
    IF Len(s) > 0 /\ Char(s, 1) \in chars
    THEN TrimLeftSet(From(s, 2), chars)
    ELSE s

RECURSIVE TrimRightSet(_, _)
TrimRightSet(s, chars) ==
    IF Len(s) > 0 /\ Char(s, Len(s)) \in chars
    THEN TrimRightSet(SubSeq(s, 1, Len(s) - 1), chars)
    ELSE s

TrimRight(s, cutset) == TrimRightSet(s, CharsOf(cutset))

TrimSpace(s) == TrimRightSet(TrimLeftSet(s, Whitespace), Whitespace)

\* strings.Index(s, substr), counted from 1; 0: not found
Index(s, substr) ==
    LET found == {i \in 1..(Len(s) - Len(substr) + 1) : SubSeq(s, i, i + Len(substr) - 1) = substr}
    IN  IF found = {} THEN 0 ELSE CHOOSE i \in found : \A j \in found : i <= j
Contains(s, substr) == Index(s, substr) > 0
HasSuffix(s, suffix) ==
    Len(s) >= Len(suffix) /\ SubSeq(s, Len(s) - Len(suffix) + 1, Len(s)) = suffix

\* strings.Split(s, sep) for a non-empty separator
RECURSIVE Split(_, _)
Split(s, sep) ==
    IF Index(s, sep) = 0 THEN <<s>>
    ELSE <<SubSeq(s, 1, Index(s, sep) - 1)>> \o Split(From(s, Index(s, sep) + Len(sep)), sep)

\* strings.Fields: the maximal runs of non-space characters
RECURSIVE FieldsFrom(_, _, _, _)
FieldsFrom(s, i, piece, pieces) ==
    LET closed == IF piece = "" THEN pieces ELSE Append(pieces, piece)
    IN  IF i > Len(s) THEN closed
        ELSE IF Char(s, i) \in Whitespace
             THEN FieldsFrom(s, i + 1, "", closed)
             ELSE FieldsFrom(s, i + 1, piece \o Char(s, i), pieces)
Fields(s) == FieldsFrom(s, 1, "", <<>>)

RECURSIVE Join(_, _)
Join(elems, sep) ==
    IF Len(elems) = 0 THEN ""
    ELSE IF Len(elems) = 1 THEN elems[1]
    ELSE elems[1] \o sep \o Join(Tail(elems), sep)

UpperLetters == "ABCDEFGHIJKLMNOPQRSTUVWXYZ"
LowerLetters == "abcdefghijklmnopqrstuvwxyz"
LowerOf == [c \in CharsOf(UpperLetters) |->
               Char(LowerLetters, CHOOSE i \in 1..Len(UpperLetters) : Char(UpperLetters, i) = c)]
ToLowerChar(c) == IF c \in DOMAIN LowerOf THEN LowerOf[c] ELSE c

\* character by character; the string is halved to keep the nesting shallow
RECURSIVE ToLower(_)
ToLower(s) ==
    IF Len(s) = 0 THEN ""
    ELSE IF Len(s) = 1 THEN ToLowerChar(s)
    ELSE ToLower(SubSeq(s, 1, Len(s) \div 2)) \o ToLower(From(s, Len(s) \div 2 + 1))

EqualFold(s, t) == ToLower(s) = ToLower(t)

\* bytes.IndexByte(s, c), counted from 1; 0: not found
IndexByte(s, c) == Index(s, c)

MapSeq(elems, Op(_)) == [i \in 1..Len(elems) |-> Op(elems[i])]
Range(elems) == {elems[i] : i \in 1..Len(elems)}

----------------------------------------------------------------------------
(* encoding/json for []string, and Postgres LIKE *)

\* the \uXXXX escape json.Marshal writes for a character (it escapes HTML's
\* <, > and &), "" for a character it writes another way
UnicodeEscape(c) ==
    CASE c = "<" -> "003c"
      [] c = ">" -> "003e"
      [] c = "&" -> "0026"
      [] OTHER -> ""

EncodeChar(c) ==
    CASE c = "\"" -> "\\\""
      [] c = "\\" -> "\\\\"
      [] c = "\n" -> "\\n"
      [] c = "\r" -> "\\r"
      [] c = "\t" -> "\\t"
      [] c = "\f" -> "\\u000c"
      [] UnicodeEscape(c) # "" -> "\\u" \o UnicodeEscape(c)
      [] OTHER -> c

RECURSIVE EncodeChars(_)
EncodeChars(s) == IF Len(s) = 0 THEN "" ELSE EncodeChar(Char(s, 1)) \o EncodeChars(From(s, 2))

\* a JSON string written without escaping anything
EncodeStringRaw(s) == "\"" \o s \o "\""
\* json.Marshal of a string
EncodeString(s) == "\"" \o EncodeChars(s) \o "\""

\* json.Marshal of a non-nil []string
Marshal(tags) == "[" \o Join(MapSeq(tags, EncodeString), ",") \o "]"

DecodeUnicode(hex) ==
    CASE hex = "003c" -> Some("<")
      [] hex = "003e" -> Some(">")
      [] hex = "0026" -> Some("&")
      [] hex = "000c" -> Some("\f")
      [] OTHER -> Nil

DecodeEscape(c) ==
    CASE c = "\"" -> Some("\"")
      [] c = "\\" -> Some("\\")
      [] c = "/" -> Some("/")
      [] c = "n" -> Some("\n")
      [] c = "r" -> Some("\r")
      [] c = "t" -> Some("\t")
      [] c = "f" -> Some("\f")
      [] OTHER -> Nil

ParseFailed == [ok |-> FALSE, val |-> "", next |-> 0]

\* the JSON string whose opening quote is just before position i
RECURSIVE ParseString(_, _, _)
ParseString(text, i, val) ==
    IF i > Len(text) THEN ParseFailed
    ELSE IF Char(text, i) = "\"" THEN [ok |-> TRUE, val |-> val, next |-> i + 1]
    ELSE IF Char(text, i) = "\\"
         THEN IF i + 1 > Len(text) THEN ParseFailed
              ELSE IF Char(text, i + 1) = "u"
                   THEN IF i + 5 > Len(text) \/ IsNil(DecodeUnicode(SubSeq(text, i + 2, i + 5)))
                        THEN ParseFailed
                        ELSE ParseString(text, i + 6,
                                         val \o Val(DecodeUnicode(SubSeq(text, i + 2, i + 5))))
                   ELSE IF IsNil(DecodeEscape(Char(text, i + 1))) THEN ParseFailed
                        ELSE ParseString(text, i + 2, val \o Val(DecodeEscape(Char(text, i + 1))))
    ELSE IF Char(text, i) \in {"\n", "\r", "\t", "\f"} THEN ParseFailed
    ELSE ParseString(text, i + 1, val \o Char(text, i))

UnmarshalFailed == [ok |-> FALSE, tags |-> <<>>]

\* the elements of a JSON array from position i, where an element must start
RECURSIVE ParseElements(_, _, _)
ParseElements(text, i, tags) ==
    IF i > Len(text) \/ Char(text, i) # "\"" THEN UnmarshalFailed
    ELSE LET str == ParseString(text, i + 1, "")
         IN  IF ~str.ok \/ str.next > Len(text) THEN UnmarshalFailed
             ELSE IF Char(text, str.next) = "]"
                  THEN IF str.next = Len(text)
                       THEN [ok |-> TRUE, tags |-> Append(tags, str.val)]
                       ELSE UnmarshalFailed
             ELSE IF Char(text, str.next) = ","
                  THEN ParseElements(text, str.next + 1, Append(tags, str.val))
             ELSE UnmarshalFailed

\* json.Unmarshal of the text json.Marshal writes (no white space) into a []string
Unmarshal(text) ==
    IF text = "null" \/ text = "[]" THEN [ok |-> TRUE, tags |-> <<>>]
    ELSE IF ~HasPrefix(text, "[") THEN UnmarshalFailed
    ELSE ParseElements(text, 2, <<>>)

\* Postgres: text LIKE pattern, with % and _ and the backslash escape;
\* LikeAt matches text from position i against pattern from position j
RECURSIVE LikeAt(_, _, _, _)
LikeAt(text, pattern, i, j) ==
    IF j > Len(pattern) THEN i > Len(text)
    ELSE IF Char(pattern, j) = "%"
         THEN LikeAt(text, pattern, i, j + 1)
              \/ (i <= Len(text) /\ LikeAt(text, pattern, i + 1, j))
    ELSE IF Char(pattern, j) = "_"
         THEN i <= Len(text) /\ LikeAt(text, pattern, i + 1, j + 1)
    ELSE IF Char(pattern, j) = "\\"
         THEN /\ j < Len(pattern)
              /\ i <= Len(text)
              /\ Char(text, i) = Char(pattern, j + 1)
              /\ LikeAt(text, pattern, i + 1, j + 2)
    ELSE /\ i <= Len(text)
         /\ Char(text, i) = Char(pattern, j)
         /\ LikeAt(text, pattern, i + 1, j + 1)
Like(text, pattern) == LikeAt(text, pattern, 1, 1)

\* Postgres: text ILIKE pattern
ILike(text, pattern) == Like(ToLower(text), ToLower(pattern))

----------------------------------------------------------------------------
(* internal/utils and the API's own content extraction *)

\* html2text.FromString, as far as dropping the markup: the text outside <...>
RECURSIVE StripTags(_, _, _)
StripTags(html, i, inTag) ==
    IF i > Len(html) THEN ""
    ELSE IF Char(html, i) = "<" THEN StripTags(html, i + 1, TRUE)
    ELSE IF Char(html, i) = ">" /\ inTag THEN StripTags(html, i + 1, FALSE)
    ELSE IF inTag THEN StripTags(html, i + 1, TRUE)
    ELSE Char(html, i) \o StripTags(html, i + 1, FALSE)
Html2Text(html) == StripTags(html, 1, FALSE)

\* mime/multipart.Reader over the text split at "\n": lines[i] was followed
\* by "\n" unless it is the last line
HasNewline(lines, i) == i < Len(lines)

\* what follows prefix in line, after skipLWSPChar (spaces and tabs)
RestAfter(line, prefix) == TrimLeftSet(From(line, Len(prefix) + 1), {" ", "\t"})

\* Reader.nl is "\r\n" until the first boundary line ends in a bare "\n";
\* the rest of a boundary line, its "\n" left off, equals nl
RestIsNl(rest, nl) == IF nl = "\n" THEN rest = "" ELSE rest = "\r"

\* isBoundaryDelimiterLine
IsBoundaryDelimiterLine(lines, i, delim, nl) ==
    /\ HasPrefix(lines[i], delim)
    /\ HasNewline(lines, i)
    /\ RestIsNl(RestAfter(lines[i], delim), nl)

\* isFinalBoundary
IsFinalBoundary(lines, i, delim, nl) ==
    /\ HasPrefix(lines[i], delim \o "--")
    /\ LET rest == RestAfter(lines[i], delim \o "--")
       IN  IF HasNewline(lines, i) THEN RestIsNl(rest, nl) ELSE rest = ""

\* matchAfterPrefix = +1: the line starts with the boundary and goes on with
\* white space, "--", or the end of the input
MatchAfterPrefix(lines, i, delim) ==
    /\ HasPrefix(lines[i], delim)
    /\ LET after == From(lines[i], Len(delim) + 1)
       IN  \/ after = ""
           \/ Char(after, 1) \in {" ", "\t", "\r"}
           \/ HasPrefix(after, "--")

\* scanUntilBoundary: the line ends the part's body; with nl = "\r\n" the
\* line before it must end in "\r", unless the body starts with the boundary
EndsBody(lines, i, delim, nl, bodyLines) ==
    /\ MatchAfterPrefix(lines, i, delim)
    /\ \/ nl = "\n"
       \/ Len(bodyLines) = 0
       \/ LET last == bodyLines[Len(bodyLines)]
          IN  Len(last) > 0 /\ Char(last, Len(last)) = "\r"

\* io.ReadAll(p): the body without the nl before the boundary line
PartBody(bodyLines, nl) ==
    LET joined == Join(bodyLines, "\n")
    IN  IF nl = "\r\n" /\ Len(joined) > 0
        THEN SubSeq(joined, 1, Len(joined) - 1)
        ELSE joined

\* a line of a part's MIME header as textproto reads it: its key, "" when
\* the line has no colon, an empty key, or a key with a space in it
HeaderKey(line) ==
    LET colon == IndexByte(line, ":")
        key == SubSeq(line, 1, colon - 1)
    IN  IF colon <= 1 \/ IndexByte(key, " ") > 0 \/ IndexByte(key, "\t") > 0 THEN "" ELSE key
HeaderValue(line) ==
    TrimRightSet(TrimLeftSet(From(line, IndexByte(line, ":") + 1), {" ", "\t"}), {" ", "\t"})

\* Reader.NextPart until it returns an error, and io.ReadAll of each part.
\* mode "seek": before the first part; "header": in a part's MIME header
\* (ct: the first Content-Type read, first: no header line read yet);
\* "body": in a part's body. err: NextPart returned an error other than
\* io.EOF. A header that the input ends in makes NextPart return io.EOF.
\* A continuation line of a header is read and not looked at.
RECURSIVE ReadParts(_, _, _, _, _, _, _, _, _)
ReadParts(lines, delim, i, mode, nl, first, ct, bodyLines, parts) ==
    LET line == lines[i]
        eol == IF HasNewline(lines, i) /\ HasPrefix(line, delim) /\ RestAfter(line, delim) = ""
               THEN "\n" ELSE nl
        done == Append(parts, [ct |-> IF IsNil(ct) THEN "" ELSE Val(ct),
                               body |-> PartBody(bodyLines, nl)])
    IN  IF i > Len(lines)
        THEN [err |-> mode # "header", parts |-> parts]
        ELSE IF mode = "seek"
        THEN IF IsBoundaryDelimiterLine(lines, i, delim, eol)
             THEN ReadParts(lines, delim, i + 1, "header", eol, TRUE, Nil, <<>>, parts)
             ELSE IF IsFinalBoundary(lines, i, delim, nl) THEN [err |-> FALSE, parts |-> parts]
             ELSE ReadParts(lines, delim, i + 1, "seek", nl, TRUE, Nil, <<>>, parts)
        ELSE IF mode = "header"
        THEN LET text == IF HasNewline(lines, i) THEN TrimRightSet(line, {"\r"}) ELSE line
             IN  IF text = ""
                 THEN IF HasNewline(lines, i)
                      THEN ReadParts(lines, delim, i + 1, "body", nl, TRUE, ct, <<>>, parts)
                      ELSE [err |-> FALSE, parts |-> parts]
                 ELSE IF Char(text, 1) \in {" ", "\t"}
                 THEN IF first THEN [err |-> TRUE, parts |-> parts]
                      ELSE ReadParts(lines, delim, i + 1, "header", nl, FALSE, ct, <<>>, parts)
                 ELSE IF HeaderKey(text) = "" THEN [err |-> TRUE, parts |-> parts]
                 ELSE IF ToLower(HeaderKey(text)) = "content-type" /\ IsNil(ct)
                      THEN ReadParts(lines, delim, i + 1, "header", nl, FALSE,
                                     Some(HeaderValue(text)), <<>>, parts)
                      ELSE ReadParts(lines, delim, i + 1, "header", nl, FALSE, ct, <<>>, parts)
        ELSE IF EndsBody(lines, i, delim, nl, bodyLines)
             THEN IF IsBoundaryDelimiterLine(lines, i, delim, nl)
                  THEN ReadParts(lines, delim, i + 1, "header", nl, TRUE, Nil, <<>>, done)
                  ELSE IF IsFinalBoundary(lines, i, delim, nl) THEN [err |-> FALSE, parts |-> done]
                  ELSE [err |-> TRUE, parts |-> done]
             ELSE ReadParts(lines, delim, i + 1, "body", nl, TRUE, ct, Append(bodyLines, line), parts)

\* the body of the last part whose Content-Type starts with prefix, "" for none
RECURSIVE LastPartOf(_, _, _)
LastPartOf(parts, prefix, found) ==
    IF Len(parts) = 0 THEN found
    ELSE LastPartOf(Tail(parts), prefix,
                    IF HasPrefix(parts[1].ct, prefix) THEN parts[1].body ELSE found)

ExtractPlain(data) ==
    LET trimmed == TrimSpace(data)
        nl == IndexByte(trimmed, "\n")
        boundary == TrimPrefix(TrimSpace(SubSeq(trimmed, 1, nl - 1)), "--")
        mr == ReadParts(Split(trimmed, "\n"), "--" \o boundary, 1, "seek", "\r\n", TRUE,
                        Nil, <<>>, <<>>)
        plain == LastPartOf(mr.parts, "text/plain", "")
        html == LastPartOf(mr.parts, "text/html", "")
    IN  IF ~HasPrefix(trimmed, "--") THEN [text |-> trimmed, err |-> FALSE]
        ELSE IF nl = 0 THEN [text |-> trimmed, err |-> FALSE]
        ELSE IF mr.err THEN [text |-> trimmed, err |-> FALSE]
        ELSE IF plain # "" THEN [text |-> TrimSpace(plain), err |-> FALSE]
        ELSE IF html # "" THEN [text |-> TrimSpace(Html2Text(html)), err |-> FALSE]
        ELSE [text |-> "", err |-> FALSE]

RECURSIVE CollectContent(_, _, _, _)
CollectContent(lines, i, inContent, contentLines) ==
    IF i > Len(lines) THEN contentLines
    ELSE LET line == lines[i]
             trimmedLine == TrimSpace(line)
         IN  IF trimmedLine = "" /\ ~inContent
             THEN CollectContent(lines, i + 1, TRUE, contentLines)
             ELSE IF inContent /\ HasPrefix(trimmedLine, "--") THEN contentLines
             ELSE IF inContent
                  THEN CollectContent(lines, i + 1, TRUE, Append(contentLines, line))
                  ELSE CollectContent(lines, i + 1, FALSE, contentLines)

extractSimpleContent(content) ==
    LET contentLines == CollectContent(Split(content, "\n"), 1, FALSE, <<>>)
    IN  IF Len(contentLines) > 0 THEN TrimSpace(Join(contentLines, "\n")) ELSE ""

\* the bytes a quoted-printable escape =XY can name: tab, LF, CR and the
\* printable ASCII characters; the backquote and any other byte are shown as "?"
HexDigits == "0123456789ABCDEF"
Ascii == " !\"#$%&'()*+,-./0123456789:;<=>?@ABCDEFGHIJKLMNOPQRSTUVWXYZ[\\]^_?abcdefghijklmnopqrstuvwxyz{|}~"
ByteOf(v) ==
    IF v = 9 THEN "\t" ELSE IF v = 10 THEN "\n" ELSE IF v = 13 THEN "\r"
    ELSE IF v >= 32 /\ v <= 126 THEN Char(Ascii, v - 31) ELSE "?"

\* quotedprintable.Reader on one line without its white space at the end:
\* =XY is the byte XY, an "=" before anything else is kept as it is, an "="
\* with nothing after it is an error
RECURSIVE QPDecodeLine(_, _, _)
QPDecodeLine(line, i, out) ==
    IF i > Len(line) THEN [err |-> FALSE, text |-> out]
    ELSE IF Char(line, i) # "=" THEN QPDecodeLine(line, i + 1, out \o Char(line, i))
    ELSE LET hi == IF i + 1 <= Len(line) THEN IndexByte(ToLower(HexDigits), ToLower(Char(line, i + 1))) - 1 ELSE -1
             lo == IF i + 2 <= Len(line) THEN IndexByte(ToLower(HexDigits), ToLower(Char(line, i + 2))) - 1 ELSE -1
         IN  IF hi >= 0 /\ lo >= 0
             THEN QPDecodeLine(line, i + 3, out \o ByteOf(16 * hi + lo))
             ELSE IF i + 1 <= Len(line) /\ Char(line, i + 1) \notin {"\r", "\n"}
                  THEN QPDecodeLine(line, i + 1, out \o "=")
                  ELSE [err |-> TRUE, text |-> out]

\* quotedprintable.NewReader(...) read to the end, line by line: white space
\* at the end of a line is dropped, a line ending in "=" is joined to the
\* next one, any other line keeps its "\n" or "\r\n"
RECURSIVE QPDecodeLines(_, _, _)
QPDecodeLines(lines, i, out) ==
    IF i > Len(lines) THEN [err |-> FALSE, text |-> out]
    ELSE LET whole == lines[i]
             hasLF == i < Len(lines)
             hasCR == hasLF /\ HasSuffix(whole, "\r")
             line == TrimRightSet(whole, {" ", "\t", "\r"})
             rightStripped == From(whole, Len(line) + 1)
             soft == HasSuffix(line, "=")
             softOk == \/ hasLF /\ rightStripped \in {"", "\r"}
                       \/ ~hasLF /\ rightStripped = "" /\ Len(line) > 1
             decoded == QPDecodeLine(IF soft THEN SubSeq(line, 1, Len(line) - 1) ELSE line, 1, "")
             eol == IF soft \/ ~hasLF THEN "" ELSE IF hasCR THEN "\r\n" ELSE "\n"
         IN  IF ~hasLF /\ whole = "" THEN [err |-> FALSE, text |-> out]
             ELSE IF decoded.err \/ (soft /\ ~softOk) THEN [err |-> TRUE, text |-> out]
             ELSE QPDecodeLines(lines, i + 1, out \o decoded.text \o eol)

\* io.Copy(&buf, quotedprintable.NewReader(strings.NewReader(content))):
\* the decoded text when err == nil, else content as it was
QPDecoded(content) ==
    LET r == QPDecodeLines(Split(content, "\n"), 1, "")
    IN  IF r.err THEN content ELSE r.text

cleanMessageContent(content) ==
    LET decoded == IF Contains(ToLower(content), "=\r\n") \/ Contains(ToLower(content), "=\n")
                   THEN QPDecoded(content) ELSE content
        cleanLines == SelectSeq(Split(decoded, "\r\n"),
                                LAMBDA line : ~Contains(line, "Sent from my iPhone"))
    IN  TrimRight(Join(cleanLines, "\r\n"), "\r\n \t=")

\* one section between boundary markers: Nil when it is skipped, else the
\* content ExtractInlineMIMEParts takes from it
InlineSection(raw) ==
    LET section == TrimSpace(raw)
        sectionLower == ToLower(section)
        isQuotedPrintable == Contains(sectionLower, "content-transfer-encoding: quoted-printable")
        crlf == Index(section, "\r\n\r\n")
        lf == Index(section, "\n\n")
        content == TrimSpace(IF crlf # 0 THEN From(section, crlf + 4)
                             ELSE IF lf # 0 THEN From(section, lf + 2) ELSE "")
        cleaned == cleanMessageContent(IF isQuotedPrintable THEN QPDecoded(content) ELSE content)
    IN  IF section = "" \/ HasSuffix(section, "--") THEN Nil
        ELSE IF Contains(sectionLower, "content-disposition: attachment") THEN Nil
        ELSE IF cleaned # "" THEN Some(cleaned) ELSE Nil

RECURSIVE Flatten(_)
Flatten(options) ==
    IF Len(options) = 0 THEN <<>> ELSE options[1] \o Flatten(Tail(options))

ExtractInlineMIMEParts(body, boundary) ==
    LET boundaryMarker == "--" \o boundary
        sections == Split(body, boundaryMarker)
    IN  Flatten([k \in 1..Len(sections) |-> InlineSection(sections[k])])

----------------------------------------------------------------------------
(* internal/database: the data-access layer over Postgres.  A method takes  *)
(* the database d and yields its result and the database it leaves.  up:    *)
(* the statement reaches the server and runs; when it is FALSE the driver   *)
(* reports an error and nothing is written.                                 *)

\* an events row -> models.Event, as rows.Scan and json.Unmarshal fill it
ScanEvent(id, row, tags) ==
    [ID |-> id, Tags |-> tags, Data |-> row.data, Source |-> row.source,
     CreatedAt |-> row.created_at]

\* INSERT INTO event_logs: the foreign key wants the event to exist
LogEventStatus(d, eventID, status, up) ==
    IF eventID = 0 THEN [db |-> d, err |-> FALSE]
    ELSE IF up /\ eventID \in DOMAIN d.events
         THEN [db |-> [d EXCEPT !.event_logs = MapPut(@, d.event_logs_id_seq,
                                                     [event_id |-> eventID, status |-> status]),
                                !.event_logs_id_seq = @ + 1],
               err |-> FALSE]
         ELSE [db |-> d, err |-> TRUE]

\* fail: "insert" when the INSERT fails, "log" when only the log entry fails
StoreEvent(d, event, now, fail) ==
    LET tagsJSON == Marshal(event.Tags)
        cleanData == TrimRight(event.Data, "\r\n")
        id == d.events_id_seq
        inserted == [d EXCEPT !.events = MapPut(@, id, [tags |-> tagsJSON, data |-> cleanData,
                                                       source |-> event.Source,
                                                       created_at |-> now]),
                              !.events_id_seq = @ + 1]
    IN  IF fail = "insert"
        THEN [db |-> LogEventStatus(d, 0, "error", TRUE).db, event |-> Nil, err |-> TRUE]
        ELSE [db |-> LogEventStatus(inserted, id, "success", fail # "log").db,
              event |-> Some([ID |-> id, Tags |-> event.Tags, Data |-> cleanData,
                              Source |-> event.Source, CreatedAt |-> now]),
              err |-> FALSE]

GetEventByID(d, id) ==
    LET parsed == Unmarshal(d.events[id].tags)
    IN  IF id \notin DOMAIN d.events THEN [event |-> Nil, err |-> FALSE]
        ELSE IF ~parsed.ok THEN [event |-> Nil, err |-> TRUE]
        ELSE [event |-> Some(ScanEvent(id, d.events[id], parsed.tags)), err |-> FALSE]

\* ORDER BY created_at DESC
RECURSIVE OrderByCreatedAtDesc(_, _)
OrderByCreatedAtDesc(rows, ids) ==
    IF ids = {} THEN <<>>
    ELSE LET first == CHOOSE i \in ids : \A j \in ids :
                          \/ rows[j].created_at < rows[i].created_at
                          \/ (rows[j].created_at = rows[i].created_at /\ j <= i)
         IN  <<first>> \o OrderByCreatedAtDesc(rows, ids \ {first})

\* the rows.Next() loop shared by the GetEventsBy... queries
ScanRows(rows, ids) ==
    LET order == OrderByCreatedAtDesc(rows, ids)
        parsed == [id \in ids |-> Unmarshal(rows[id].tags)]
    IN  IF \E id \in ids : ~parsed[id].ok
        THEN [events |-> <<>>, err |-> TRUE]
        ELSE [events |-> [i \in 1..Len(order) |->
                              ScanEvent(order[i], rows[order[i]], parsed[order[i]].tags)],
              err |-> FALSE]

\* fmt.Sprintf("%%\"%s\"%%", tag)
TagPattern(tag) == "%\"" \o tag \o "\"%"

GetEventsByTag(d, tag) ==
    ScanRows(d.events, {id \in DOMAIN d.events : Like(d.events[id].tags, TagPattern(tag))})

\* time.Parse("2006-01-02", date) succeeds
Digits == "0123456789"
TwoDigits(n) == Char(Digits, (n \div 10) + 1) \o Char(Digits, (n % 10) + 1)
Months == {TwoDigits(n) : n \in 1..12}
DaysOfMonth == {TwoDigits(n) : n \in 1..31}
ValidDate(date) ==
    /\ Len(date) = Len("2006-01-02")
    /\ \A i \in 1..4 : Char(date, i) \in CharsOf(Digits)
    /\ Char(date, 5) = "-" /\ Char(date, 8) = "-"
    /\ SubSeq(date, 6, 7) \in Months
    /\ SubSeq(date, 9, 10) \in DaysOfMonth

\* created_at::date, on a calendar of two days
Calendar == <<"2024-04-25", "2024-04-26">>
DateOf(t) == Calendar[IF t < TicksPerDay THEN 1 ELSE Len(Calendar)]

GetEventsByDate(d, date) ==
    IF date = "" THEN GetEventsByTag(d, "")
    ELSE IF ~ValidDate(date) THEN [events |-> <<>>, err |-> TRUE]
    ELSE ScanRows(d.events, {id \in DOMAIN d.events : DateOf(d.events[id].created_at) = date})

GetEventsBySource(d, source) ==
    IF source = "" THEN GetEventsByTag(d, "")
    ELSE ScanRows(d.events, {id \in DOMAIN d.events : ILike(d.events[id].source, source)})

UpdateEvent(d, event, up) ==
    LET tagsJSON == Marshal(event.Tags)
        cleanData == TrimRight(event.Data, "\r\n")
        updated == [d EXCEPT !.events[event.ID] = [@ EXCEPT !.tags = tagsJSON,
                                                            !.data = cleanData,
                                                            !.source = event.Source]]
    IN  IF ~up THEN [db |-> d, err |-> TRUE]
        ELSE IF event.ID \notin DOMAIN d.events THEN [db |-> d, err |-> TRUE]
        ELSE [db |-> LogEventStatus(updated, event.ID, "updated", TRUE).db, err |-> FALSE]

\* DELETE FROM event_logs WHERE event_id = id, leaving every log in place
KeepEventLogs(logs, id) == logs
\* DELETE FROM event_logs WHERE event_id = id
DeleteEventLogs(logs, id) ==
    [l \in {k \in DOMAIN logs : logs[k].event_id # id} |-> logs[l]]

\* one transaction: it commits both deletes or, rolled back, neither
DeleteEvent(d, id, up) ==
    IF ~up THEN [db |-> d, err |-> TRUE]
    ELSE IF id \notin DOMAIN d.events THEN [db |-> d, err |-> TRUE]
    ELSE [db |-> [d EXCEPT !.event_logs = DeleteEventLogs(@, id),
                           !.events = MapDelete(@, id)],
          err |-> FALSE]

----------------------------------------------------------------------------
(* internal/api: POST /api/events behind AuthMiddleware, and the reads *)

\* an AuthMiddleware that answers 401 to a wrong token but lets the chain go on
AuthMiddlewareNoAbort(token, validToken) ==
    IF token = "" THEN [status |-> 401, aborted |-> TRUE]
    ELSE IF (IF Len(token) > 7 /\ SubSeq(token, 1, 7) = "Bearer "
             THEN From(token, 8) ELSE token) # validToken
         THEN [status |-> 401, aborted |-> FALSE]
         ELSE [status |-> 200, aborted |-> FALSE]

\* aborted: c.Abort() was called, the handlers after the middleware do not run
AuthMiddleware(token, validToken) ==
    IF token = "" THEN [status |-> 401, aborted |-> TRUE]
    ELSE IF (IF Len(token) > 7 /\ SubSeq(token, 1, 7) = "Bearer "
             THEN From(token, 8) ELSE token) # validToken
         THEN [status |-> 401, aborted |-> TRUE]
         ELSE [status |-> 200, aborted |-> FALSE]

\* a key of a JSON object bound to a string field: absent keys leave ""
Field(object, key) == IF key \in DOMAIN object THEN object[key] ELSE ""

\* c.ShouldBindJSON(&incoming): body.valid says the body is JSON the struct
\* accepts; keys the struct does not name are ignored
ShouldBindJSON(body) ==
    LET data == IF body.valid /\ "data" \in DOMAIN body.doc THEN body.doc.data ELSE <<>>
        doc == IF body.valid THEN body.doc ELSE <<>>
    IN  [err |-> ~body.valid,
         Data |-> [Subject |-> Field(data, "subject"),
                   Data |-> Field(data, "body"),
                   PlainBody |-> Field(data, "plain_body")],
         Source |-> Field(doc, "source")]

HandleEventReceive(d, body, now, fail) ==
    LET incoming == ShouldBindJSON(body)
        fields == Fields(incoming.Data.Subject)
        tags == IF Len(fields) = 0 THEN <<"untagged">> ELSE MapSeq(fields, ToLower)
        contentToProcess ==
            IF incoming.Data.Data = "" /\ incoming.Data.PlainBody # ""
            THEN incoming.Data.PlainBody
            ELSE incoming.Data.Data
        actualContent == extractSimpleContent(contentToProcess)
        plainData == ExtractPlain(contentToProcess)
        dataToStore ==
            IF actualContent # "" THEN actualContent
            ELSE IF plainData.err THEN contentToProcess
            ELSE plainData.text
        event == [Tags |-> tags, Data |-> dataToStore, Source |-> incoming.Source]
        st == StoreEvent(d, event, now, fail)
    IN  IF incoming.err
        THEN [status |-> 400, event |-> Nil, request |-> Nil, db |-> d]
        ELSE IF st.err
             THEN [status |-> 500, event |-> Nil, request |-> Nil, db |-> st.db]
             ELSE [status |-> 201, event |-> st.event, request |-> Some(event), db |-> st.db]

\* what StoreEvent stored under an id, kept while the row is as stored
Remember(m, h) ==
    IF h.status = 201
    THEN MapPut(m, Val(h.event).ID, [request |-> Val(h.request), returned |-> Val(h.event)])
    ELSE m

\* router.POST("/api/events", api.AuthMiddleware(cfg.Server.APIToken), handler.HandleEventReceive)
PostApiEvents(token, body, fail) ==
    LET mw == AuthMiddleware(token, APIToken)
        h == HandleEventReceive(db, body, dbClock, fail)
        request == [NoReply EXCEPT !.op = "POST /api/events",
                                   !.req = [header |-> token, body |-> body]]
    IN  /\ mw.aborted \/ db.events_id_seq <= MaxEvents
        /\ IF mw.aborted
           THEN /\ reply' = [request EXCEPT !.status = mw.status, !.aborted = TRUE]
                /\ UNCHANGED <<db, dbClock, stored>>
           ELSE /\ reply' = [request EXCEPT !.status = h.status, !.ran = TRUE,
                                            !.event = h.event]
                /\ db' = h.db
                /\ dbClock' = IF h.status = 201 THEN dbClock + 1 ELSE dbClock
                /\ stored' = Remember(stored, h)
        /\ UNCHANGED <<APIToken, deleted, authVars, libVars>>

\* a decimal number without its leading zeros
StripZeros(digits) ==
    LET nonzero == {i \in 1..Len(digits) : Char(digits, i) # "0"}
    IN  IF nonzero = {} THEN ""
        ELSE From(digits, CHOOSE i \in nonzero : \A j \in nonzero : i <= j)

\* a > b for two decimal numbers of one length
DigitsAbove(a, b) ==
    \E i \in 1..Len(a) :
        /\ SubSeq(a, 1, i - 1) = SubSeq(b, 1, i - 1)
        /\ IndexByte(Digits, Char(a, i)) > IndexByte(Digits, Char(b, i))

\* the decimal number is greater than limit, a number without leading zeros
ExceedsLimit(digits, limit) ==
    LET m == StripZeros(digits)
    IN  \/ Len(m) > Len(limit)
        \/ Len(m) = Len(limit) /\ DigitsAbove(m, limit)

RECURSIVE DigitsValue(_, _, _)
DigitsValue(digits, i, n) ==
    IF i > Len(digits) THEN n
    ELSE DigitsValue(digits, i + 1, (n * 10) + (IndexByte(Digits, Char(digits, i)) - 1))

\* ParseInt without the sign: "+1" and "-1" are syntax errors
ParseIntNoSign(s) ==
    IF s = "" \/ \E i \in 1..Len(s) : Char(s, i) \notin CharsOf(Digits)
    THEN [value |-> 0, err |-> "syntax"]
    ELSE IF ExceedsLimit(s, "9223372036854775807") THEN [value |-> 0, err |-> "range"]
    ELSE [value |-> DigitsValue(s, 1, 0), err |-> ""]

\* strconv.ParseInt(s, 10, 64): an optional sign, then one or more decimal
\* digits, of a value in -2^63 .. 2^63 - 1; value is read only when err = ""
ParseInt(s) ==
    LET neg == HasPrefix(s, "-")
        digits == IF HasPrefix(s, "+") \/ neg THEN From(s, 2) ELSE s
        limit == IF neg THEN "9223372036854775808" ELSE "9223372036854775807"
    IN  IF s = "" \/ digits = "" THEN [value |-> 0, err |-> "syntax"]
        ELSE IF \E i \in 1..Len(digits) : Char(digits, i) \notin CharsOf(Digits)
             THEN [value |-> 0, err |-> "syntax"]
        ELSE IF ExceedsLimit(digits, limit) THEN [value |-> 0, err |-> "range"]
        ELSE [value |-> IF neg THEN 0 - DigitsValue(digits, 1, 0)
                        ELSE DigitsValue(digits, 1, 0),
              err |-> ""]

\* router.GET("/api/events/:id", handler.HandleGetEventByID)
HandleGetEventByID(idStr) ==
    LET parsed == ParseInt(idStr)
        id == parsed.value
        r == GetEventByID(db, id)
        request == [NoReply EXCEPT !.op = "GET /api/events/:id",
                                   !.req = [param |-> idStr, id |-> id],
                                   !.ran = TRUE]
    IN  /\ reply' = IF parsed.err # "" THEN [request EXCEPT !.status = 400]
                    ELSE [request EXCEPT !.query = Some(id),
                                         !.status = IF r.err THEN 500
                                                    ELSE IF IsNil(r.event) THEN 404
                                                    ELSE 200,
                                         !.event = r.event]
        /\ UNCHANGED <<APIToken, db, dbClock, stored, deleted, authVars, libVars>>

\* router.GET("/api/events", handler.HandleGetEventsByTag)
HandleGetEventsByTag(tag) ==
    LET r == GetEventsByTag(db, tag)
        request == [NoReply EXCEPT !.op = "GET /api/events", !.req = [tag |-> tag],
                                   !.ran = TRUE]
    IN  /\ reply' = IF tag = "" THEN [request EXCEPT !.status = 400]
                    ELSE IF r.err THEN [request EXCEPT !.status = 500]
                    ELSE [request EXCEPT !.status = 200, !.events = r.events]
        /\ UNCHANGED <<APIToken, db, dbClock, stored, deleted, authVars, libVars>>

----------------------------------------------------------------------------
(* internal/web: the dashboard's handlers behind RequireAuth, for a request *)
(* the middleware has let through                                           *)

\* the events whose source equals source up to case, in order
RECURSIVE FilterBySource(_, _)
FilterBySource(events, source) ==
    IF Len(events) = 0 THEN <<>>
    ELSE (IF events[1].Source # "" /\ EqualFold(events[1].Source, source)
          THEN <<events[1]>> ELSE <<>>) \o FilterBySource(Tail(events), source)

\* the events one of whose tags equals tag up to case, in order
RECURSIVE FilterByTag(_, _)
FilterByTag(events, tag) ==
    IF Len(events) = 0 THEN <<>>
    ELSE (IF \E t \in Range(events[1].Tags) : EqualFold(t, tag)
          THEN <<events[1]>> ELSE <<>>) \o FilterByTag(Tail(events), tag)

displayEventsList(tag, date, source) ==
    LET fetched ==
            IF date # "" THEN GetEventsByDate(db, date)
            ELSE IF source # "" THEN GetEventsBySource(db, source)
            ELSE GetEventsByTag(db, tag)
        bySource ==
            IF date # "" /\ source # "" THEN FilterBySource(fetched.events, source)
            ELSE fetched.events
        byTag ==
            IF (date # "" \/ source # "") /\ tag # "" THEN FilterByTag(bySource, tag)
            ELSE bySource
        request == [NoReply EXCEPT !.op = "GET /",
                                   !.req = [tag |-> tag, date |-> date, source |-> source],
                                   !.ran = TRUE]
    IN  /\ reply' = IF fetched.err THEN [request EXCEPT !.status = 500]
                    ELSE [request EXCEPT !.status = 200, !.events = byTag]
        /\ UNCHANGED <<APIToken, db, dbClock, stored, deleted, authVars, libVars>>

HandleEventCreate(form, fail) ==
    LET tagsStr == form.tags
        fields == Fields(tagsStr)
        tags == MapSeq(fields, ToLower)
        event == [Tags |-> tags, Data |-> form.data, Source |-> form.source]
        st == StoreEvent(db, event, dbClock, fail)
        h == [status |-> IF st.err THEN 500 ELSE 201, event |-> st.event,
              request |-> Some(event)]
        request == [NoReply EXCEPT !.op = "POST /events", !.req = form, !.ran = TRUE,
                                   !.status = 303]
    IN  /\ db.events_id_seq <= MaxEvents
        /\ IF tagsStr = "" \/ form.source = "" \/ form.data = ""
           THEN /\ reply' = [request EXCEPT !.flash = "All fields are required",
                                            !.location = "/events/new"]
                /\ UNCHANGED <<db, dbClock, stored>>
           ELSE IF st.err
           THEN /\ reply' = [request EXCEPT !.flash = "Failed to create event",
                                            !.location = "/events/new"]
                /\ db' = st.db
                /\ UNCHANGED <<dbClock, stored>>
           ELSE /\ reply' = [request EXCEPT !.flash = "Event created successfully",
                                            !.location = "/events", !.event = st.event]
                /\ db' = st.db
                /\ dbClock' = dbClock + 1
                /\ stored' = Remember(stored, h)
        /\ UNCHANGED <<APIToken, deleted, authVars, libVars>>

\* the tags of the edit form: the comma-separated pieces, trimmed, without the empty ones
RECURSIVE NonEmptyTrimmed(_)
NonEmptyTrimmed(pieces) ==
    IF Len(pieces) = 0 THEN <<>>
    ELSE (IF TrimSpace(pieces[1]) # "" THEN <<TrimSpace(pieces[1])>> ELSE <<>>)
         \o NonEmptyTrimmed(Tail(pieces))

HandleEditEventPost(id, form, up) ==
    LET found == GetEventByID(db, id)
        tags == IF form.tags # "" THEN NonEmptyTrimmed(Split(form.tags, ",")) ELSE <<>>
        original == GetEventByID(db, id)
        event == [Val(found.event) EXCEPT
                      !.Data = form.data,
                      !.Tags = IF Len(tags) > 0 THEN tags
                               ELSE IF Len(@) = 0 /\ Len(form.tags) = 0
                                       /\ ~IsNil(original.event)
                                       /\ Len(Val(original.event).Tags) > 0
                                    THEN Val(original.event).Tags
                                    ELSE @,
                      !.Source = form.source]
        upd == UpdateEvent(db, event, up)
        request == [NoReply EXCEPT !.op = "POST /events/{id}/edit",
                                   !.req = [id |-> id, form |-> form], !.ran = TRUE]
    IN  /\ db.event_logs_id_seq <= MaxLogs
        /\ IF found.err
           THEN /\ reply' = [request EXCEPT !.status = 500]
                /\ UNCHANGED <<db, stored>>
           ELSE IF IsNil(found.event)
           THEN /\ reply' = [request EXCEPT !.status = 404]
                /\ UNCHANGED <<db, stored>>
           ELSE IF form.data = ""
           THEN /\ reply' = [request EXCEPT !.status = 303,
                                            !.flash = "Event data is required",
                                            !.location = "/events/{id}/edit"]
                /\ UNCHANGED <<db, stored>>
           ELSE IF upd.err
           THEN /\ reply' = [request EXCEPT !.status = 303,
                                            !.flash = "Error updating event",
                                            !.location = "/events/{id}/edit"]
                /\ db' = upd.db
                /\ UNCHANGED stored
           ELSE /\ reply' = [request EXCEPT !.status = 303,
                                            !.flash = "Event updated successfully",
                                            !.location = "/"]
                /\ db' = upd.db
                /\ stored' = MapDelete(stored, id)
        /\ UNCHANGED <<APIToken, dbClock, deleted, authVars, libVars>>

HandleDeleteEvent(id, up) ==
    LET del == DeleteEvent(db, id, up)
        request == [NoReply EXCEPT !.op = "GET /events/{id}/delete",
                                   !.req = [id |-> id], !.ran = TRUE,
                                   !.status = 303, !.location = "/"]
    IN  /\ db' = del.db
        /\ IF del.err
           THEN /\ reply' = [request EXCEPT !.flash = "Error deleting event"]
                /\ UNCHANGED <<stored, deleted>>
           ELSE /\ reply' = [request EXCEPT !.flash = "Event deleted successfully"]
                /\ stored' = MapDelete(stored, id)
                /\ deleted' = deleted \cup {id}
        /\ UNCHANGED <<APIToken, dbClock, authVars, libVars>>

----------------------------------------------------------------------------
(* The requests the model sends *)

ApiTokens == {"secret", ""}

\* JSON bodies: the README's form, two mail envelopes as the handler binds
\* them, and a body that is not JSON
ReadmeBody ==
    [valid |-> TRUE, doc |-> [tags |-> <<"word1", "word2">>, body |-> "event body content"]]
MailBody ==
    [valid |-> TRUE,
     doc |-> [data |-> [subject |-> "abc", body |-> "up\r\n"], source |-> "cron"]]
PlainMailBody ==
    [valid |-> TRUE,
     doc |-> [data |-> [subject |-> "A_c b", body |-> "", plain_body |-> "to: x\n\nlow"],
              source |-> ""]]
BadBody == [valid |-> FALSE, doc |-> <<>>]

\* POST /api/events: the Authorization header, the body, and what fails in the database
PostRequests ==
    << [header |-> "", body |-> ReadmeBody, fail |-> "none"],
       [header |-> "secret", body |-> ReadmeBody, fail |-> "none"],
       [header |-> "Bearer secret", body |-> MailBody, fail |-> "none"],
       [header |-> "Bearer Bearer secret", body |-> ReadmeBody, fail |-> "none"],
       [header |-> "Bearer ", body |-> ReadmeBody, fail |-> "none"],
       [header |-> "guess", body |-> MailBody, fail |-> "none"],
       [header |-> "secret", body |-> PlainMailBody, fail |-> "none"],
       [header |-> "secret", body |-> BadBody, fail |-> "none"],
       [header |-> "secret", body |-> MailBody, fail |-> "insert"],
       [header |-> "Bearer secret", body |-> PlainMailBody, fail |-> "log"] >>

\* the dashboard's create form, and what fails in the database
CreateRequests ==
    << [form |-> [tags |-> "A\"b ,", source |-> "Web", data |-> " d \n\r\n"], fail |-> "none"],
       [form |-> [tags |-> "", source |-> "web", data |-> "d"], fail |-> "none"],
       [form |-> [tags |-> "A\"b ,", source |-> "Web", data |-> " d \n\r\n"], fail |-> "insert"] >>

\* the dashboard's edit form, and whether the database is up
EditRequests ==
    << [form |-> [data |-> "e\n", tags |-> "x y, ,z", source |-> "cron"], up |-> TRUE],
       [form |-> [data |-> "", tags |-> "x", source |-> ""], up |-> TRUE],
       [form |-> [data |-> "e\n", tags |-> "x y, ,z", source |-> "cron"], up |-> FALSE] >>

EventIDs == 1..(MaxEvents + 1)

\* strconv.Itoa of a number of one or more digits, for the requests' paths
RECURSIVE Itoa(_)
Itoa(n) == IF n < 10 THEN Char(Digits, n + 1) ELSE Itoa(n \div 10) \o Char(Digits, (n % 10) + 1)

\* the :id of a request for an event that may be stored
StoredIdParams == {Itoa(id) : id \in EventIDs}

\* the :id of GET /api/events/:id: ids that may be stored, and texts that are
\* signed, padded, not numbers, or past the 64 bits
IdParams ==
    StoredIdParams
        \cup {"+1", "-1", "01", "", "1a", "9223372036854775807x", "9223372036854775808"}

QueryTags == {"", "a_c", ",", "a\"b"}

ListFilters ==
    { <<"", "", "">>, <<"B", "2024-04-25", "CRON">>, <<"abc", "", "cr%">>,
      <<"", "yesterday", "">> }

AuthIdle ==
    /\ users = <<>>
    /\ sessions = <<>>
    /\ mu = MutexFree
    /\ clock = 0
    /\ pc = [g \in Goroutines |-> "idle"]
    /\ ctx = [g \in Goroutines |-> NoCtx]
    /\ resp = [g \in Goroutines |-> NoResp]
    /\ crashed = FALSE
    /\ issued = {}
    /\ loggedOut = {}

InitDb ==
    /\ AuthIdle
    /\ LibIdle
    /\ APIToken \in ApiTokens
    /\ db = EmptyDb
    /\ dbClock = 0
    /\ reply = NoReply
    /\ stored = <<>>
    /\ deleted = {}

NextDb ==
    \/ \E r \in DOMAIN PostRequests :
           PostApiEvents(PostRequests[r].header, PostRequests[r].body, PostRequests[r].fail)
    \/ \E idStr \in StoredIdParams : HandleGetEventByID(idStr)
    \/ \E tag \in QueryTags : HandleGetEventsByTag(tag)
    \/ \E f \in ListFilters : displayEventsList(f[1], f[2], f[3])
    \/ \E r \in DOMAIN CreateRequests :
           HandleEventCreate(CreateRequests[r].form, CreateRequests[r].fail)
    \/ \E id \in EventIDs, r \in DOMAIN EditRequests :
           HandleEditEventPost(id, EditRequests[r].form, EditRequests[r].up)
    \/ \E id \in EventIDs, up \in BOOLEAN : HandleDeleteEvent(id, up)

SpecDb == InitDb /\ [][NextDb]_vars

\* the API server on its own: its routes for storing and reading events, with
\* any text as the :id of a request
NextApi ==
    \/ \E r \in DOMAIN PostRequests :
           PostApiEvents(PostRequests[r].header, PostRequests[r].body, PostRequests[r].fail)
    \/ \E idStr \in IdParams : HandleGetEventByID(idStr)
    \/ \E tag \in QueryTags : HandleGetEventsByTag(tag)

SpecApi == InitDb /\ [][NextApi]_vars

----------------------------------------------------------------------------
(* Text handling on its own: the functions are applied to texts built from  *)
(* a few lines, and the last call is kept in call                           *)

\* the sequences over S of length at most n
SeqsUpTo(S, n) == UNION {[1..k -> S] : k \in 0..n}

\* lines of a plain-text body: words, a blank line, a header-like line with
\* CR, a line of dashes
PlainLines == {"a", "", " b", "c: d\r", "--x"}
PlainTexts == {Join(lines, "\n") : lines \in SeqsUpTo(PlainLines, MaxLines)}

\* a mail envelope whose data.body is content
EnvelopeOf(content) ==
    [valid |-> TRUE, doc |-> [data |-> [subject |-> "", body |-> content], source |-> ""]]

\* POST /api/events with data.body = content, on an empty database
ReceiveBody(content) ==
    LET h == HandleEventReceive(EmptyDb, EnvelopeOf(content), 0, "none")
    IN  /\ call' = [fn |-> "HandleEventReceive", args |-> <<content>>,
                    result |-> [status |-> h.status,
                                data |-> IF IsNil(h.event) THEN Nil
                                         ELSE Some(Val(h.event).Data)]]
        /\ UNCHANGED <<authVars, dbVars, mig>>

\* the parts of a generated multipart message: a Content-Type ("" for a
\* part without the header) and a body
PartTypes == {"text/plain", "text/html; charset=utf-8", ""}
PartBodies == {"a", " <b>b</b>", ""}
MimeParts == [ct : PartTypes, body : PartBodies]
Messages == SeqsUpTo(MimeParts, MaxParts) \ {<<>>}

\* the message with boundary x and line ending nl, as a mail client writes it
RECURSIVE RenderParts(_, _)
RenderParts(parts, nl) ==
    IF Len(parts) = 0 THEN "--x--"
    ELSE "--x" \o nl
         \o (IF parts[1].ct = "" THEN "" ELSE "Content-Type: " \o parts[1].ct \o nl)
         \o nl \o parts[1].body \o nl
         \o RenderParts(Tail(parts), nl)

\* utils.ExtractPlain(data) for a generated message
CallExtractPlain(parts, nl) ==
    /\ call' = [fn |-> "ExtractPlain", args |-> <<RenderParts(parts, nl), parts>>,
                result |-> ExtractPlain(RenderParts(parts, nl))]
    /\ UNCHANGED <<authVars, dbVars, mig>>

\* url.QueryEscape: letters, digits and -_.~ stay, a space becomes "+",
\* any other character becomes %XY with its code in hex
Unreserved == CharsOf(UpperLetters \o LowerLetters \o "0123456789-_.~")
EscapeChar(c) ==
    IF c \in Unreserved THEN c
    ELSE IF c = " " THEN "+"
    ELSE LET code == Index(Ascii, c) + 31
         IN  "%" \o Char(HexDigits, (code \div 16) + 1) \o Char(HexDigits, (code % 16) + 1)
RECURSIVE QueryEscape(_)
QueryEscape(s) == IF s = "" THEN "" ELSE EscapeChar(Char(s, 1)) \o QueryEscape(From(s, 2))

\* url.QueryUnescape; err: a "%" that two hex digits do not follow
RECURSIVE QueryUnescape(_)
QueryUnescape(s) ==
    IF s = "" THEN [text |-> "", err |-> FALSE]
    ELSE IF Char(s, 1) = "+"
    THEN [QueryUnescape(From(s, 2)) EXCEPT !.text = " " \o @]
    ELSE IF Char(s, 1) # "%"
    THEN [QueryUnescape(From(s, 2)) EXCEPT !.text = Char(s, 1) \o @]
    ELSE LET hi == IF Len(s) >= 2 THEN Index(ToLower(HexDigits), ToLower(Char(s, 2))) - 1 ELSE -1
             lo == IF Len(s) >= 3 THEN Index(ToLower(HexDigits), ToLower(Char(s, 3))) - 1 ELSE -1
         IN  IF hi < 0 \/ lo < 0 THEN [text |-> "", err |-> TRUE]
             ELSE [QueryUnescape(From(s, 4)) EXCEPT !.text = ByteOf(16 * hi + lo) \o @]

\* the Value of the "flash" cookie setFlash writes
setFlash(message, messageType) == QueryEscape(message \o "|" \o messageType)

\* getFlash for a request whose "flash" cookie is cookie (Nil: no such
\* cookie): the (message, type) pair it returns
getFlash(cookie) ==
    LET cleared == ""
        value == QueryUnescape(cleared).text
        parts == Split(value, "|")
    IN  IF IsNil(cookie) THEN <<"", "">>
        ELSE IF Len(parts) # 2 THEN <<"", "">>
        ELSE <<parts[1], parts[2]>>

\* setFlash(message, messageType) in one response, getFlash in the request
\* that brings the cookie back
FlashMessages == {"Event deleted successfully", "50% done & more", "a|b", ""}
FlashTypes == {"success", "error"}
CallGetFlash(message, messageType) ==
    /\ call' = [fn |-> "getFlash", args |-> <<message, messageType>>,
                result |-> getFlash(Some(setFlash(message, messageType)))]
    /\ UNCHANGED <<authVars, dbVars, mig>>

\* the parts of a generated mail body: a Content-Disposition ("" for a
\* part without the header) and a body
Dispositions == {"", "attachment; filename=f"}
MailPartBodies == {"hi", "bye --", ""}
MailParts == [disposition : Dispositions, body : MailPartBodies]
Mails == SeqsUpTo(MailParts, MaxParts) \ {<<>>}

RECURSIVE RenderMail(_, _)
RenderMail(parts, nl) ==
    IF Len(parts) = 0 THEN "--x--"
    ELSE "--x" \o nl \o "Content-Type: text/plain" \o nl
         \o (IF parts[1].disposition = "" THEN ""
             ELSE "Content-Disposition: " \o parts[1].disposition \o nl)
         \o nl \o parts[1].body \o nl
         \o RenderMail(Tail(parts), nl)

\* utils.ExtractInlineMIMEParts(body, "x") for a generated mail body
CallExtractInlineMIMEParts(parts, nl) ==
    /\ call' = [fn |-> "ExtractInlineMIMEParts", args |-> <<RenderMail(parts, nl), parts>>,
                result |-> ExtractInlineMIMEParts(RenderMail(parts, nl), "x")]
    /\ UNCHANGED <<authVars, dbVars, mig>>

InitText ==
    /\ AuthIdle
    /\ DbIdle
    /\ LibIdle

NextText ==
    \/ \E content \in PlainTexts : ReceiveBody(content)
    \/ \E parts \in Messages, nl \in {"\n", "\r\n"} : CallExtractPlain(parts, nl)
    \/ \E parts \in Mails, nl \in {"\n", "\r\n"} : CallExtractInlineMIMEParts(parts, nl)
    \/ \E message \in FlashMessages, messageType \in FlashTypes : CallGetFlash(message, messageType)

SpecText == InitText /\ [][NextText]_vars

----------------------------------------------------------------------------
(* Claims about the session store *)

\* C2 (as claimed): the users and sessions maps are mutex-guarded, so that no
\* write of a map runs while another goroutine reads or writes that map.
C2_NoConcurrentMapWrite ==
    \A g \in Goroutines : \A h \in Goroutines \ {g} :
        /\ ~(pc[g] \in SessionWritePoints /\ pc[h] \in SessionAccessPoints)
        /\ ~(pc[g] \in UserWritePoints /\ pc[h] \in UserAccessPoints)

\* C3: a session expires at its creation time + 24 hours and nothing changes
\* a stored session; GetSession returns the session when it is stored and the
\* time is not after ExpiresAt, and an error (never the session) otherwise;
\* an id is never given to a second session, so an expired one stays expired.
C3_FixedExpiry ==
    /\ [](\A s \in DOMAIN sessions :
            /\ sessions[s].ID = s
            /\ s \in issued
            /\ sessions[s].ExpiresAt = sessions[s].CreatedAt + SessionTTL)
    /\ [][/\ clock' >= clock
          /\ \A s \in DOMAIN sessions \cap DOMAIN sessions' : sessions'[s] = sessions[s]
          /\ \A s \in DOMAIN sessions' \ DOMAIN sessions :
                s \notin issued /\ sessions'[s].CreatedAt = clock]_vars
    /\ [][\A w \in Workers :
            (pc[w] = "gs_lookup" /\ pc'[w] # "gs_lookup") =>
                LET id == Val(ctx[w].cookie)
                IN IF id \in DOMAIN sessions /\ clock <= sessions[id].ExpiresAt
                   THEN /\ ctx'[w].session = Some(sessions[id])
                        /\ Val(ctx'[w].gs).err = "nil"
                   ELSE /\ ctx'[w].session = Nil
                        /\ Val(ctx'[w].gs).err # "nil"]_vars

\* C3 witness: GetSession has found a stored session past its ExpiresAt.
C3_Witness ==
    \E w \in Workers : pc[w] = "gs_runlock" /\ Val(ctx[w].gs).err = "session expired"

\* C4: RequireAuth calls the protected handler only for a cookie that maps to
\* a stored, unexpired session of an existing user; otherwise the handler is
\* not called and the response is 303 to /login, with the session cookie
\* cleared exactly when a cookie was presented.
C4_RequireAuth ==
    \A w \in Workers :
        resp[w].route = "protected" =>
            LET r == resp[w]
                valid == ~IsNil(r.cookie) /\ ~IsNil(r.gs) /\ Val(r.gs).live /\ Val(r.gs).owner
            IN /\ r.next => valid
               /\ ~valid => /\ ~r.next
                            /\ r.status = 303
                            /\ r.location = "/login"
                            /\ r.cleared = ~IsNil(r.cookie)

\* C4 witness: the handler was called for one request while another, with an
\* invalid cookie, was redirected.
C4_Witness ==
    \E w \in Workers, v \in Workers :
        /\ resp[w].route = "protected" /\ resp[w].next
        /\ resp[v].route = "protected" /\ resp[v].cleared

\* C5: a request that presents a session id which a finished HandleLogout
\* carried is redirected to /login and never reaches the protected handler.
C5_LoggedOutStaysOut ==
    \A w \in Workers :
        (resp[w].route = "protected" /\ resp[w].stale) =>
            /\ ~resp[w].next
            /\ resp[w].status = 303
            /\ resp[w].location = "/login"

\* C5 witness: a logged-out id is presented after a later login.
C5_Witness ==
    \E w \in Workers :
        /\ resp[w].route = "protected" /\ resp[w].stale
        /\ DOMAIN sessions # {}

----------------------------------------------------------------------------
(* Claims about the event API and the data-access layer *)

IDsOf(events) == {events[i].ID : i \in 1..Len(events)}

\* the ids of the stored events whose tag list has an element equal to tag
IDsTagged(tag) ==
    {id \in DOMAIN db.events : \E t \in Range(Unmarshal(db.events[id].tags).tags) : t = tag}

\* the header is non-empty and, with at most one leading "Bearer " removed,
\* equals the configured token
Authorized(header, validToken) ==
    /\ header # ""
    /\ \/ header = validToken
       \/ HasPrefix(header, "Bearer ") /\ From(header, Len("Bearer ") + 1) = validToken

\* C1: POST /api/events runs the event-receive handler, and stores an event,
\* only for a request whose Authorization header is non-empty and equals the
\* configured token once at most one leading "Bearer " is removed; every
\* other request is answered 401 by AuthMiddleware, which aborts the chain,
\* and leaves both tables and their sequences as they were.
C1_TokenGate ==
    [][reply'.op = "POST /api/events" =>
          /\ reply'.ran => Authorized(reply'.req.header, APIToken)
          /\ db'.events # db.events => Authorized(reply'.req.header, APIToken)
          /\ ~Authorized(reply'.req.header, APIToken) =>
                 /\ reply'.status = 401
                 /\ reply'.aborted
                 /\ ~reply'.ran
                 /\ db' = db]_vars

\* a request with a doubled "Bearer " prefix was turned away while events are stored
C1_Witness ==
    /\ reply.op = "POST /api/events"
    /\ reply.req.header = "Bearer Bearer secret"
    /\ reply.status = 401
    /\ DOMAIN db.events # {}

\* the body is a JSON object with exactly the keys "tags" and "body"
IsReadmeForm(body) == body.valid /\ DOMAIN body.doc = {"tags", "body"}

\* C6: a POST /api/events that AuthMiddleware lets through (its token is valid),
\* with a body {"tags": [...], "body": b} and a database that works, stores
\* one event and answers 201 with its id, the tags sent and the body sent.
C6_ReadmeFormStored ==
    ( /\ reply.op = "POST /api/events"
      /\ reply.ran
      /\ IsReadmeForm(reply.req.body)
      /\ reply.status # 500 )
    => /\ reply.status = 201
       /\ ~IsNil(reply.event)
       /\ Val(reply.event).ID \in DOMAIN db.events
       /\ Val(reply.event).Tags = reply.req.body.doc.tags
       /\ Val(reply.event).Data = reply.req.body.doc.body

\* C7: GET /api/events?tag=t with a non-empty t answers with exactly the
\* stored events whose tag list contains t.
C7_ExactlyTheTagged ==
    (reply.op = "GET /api/events" /\ reply.req.tag # "" /\ reply.status = 200)
    => IDsOf(reply.events) = IDsTagged(reply.req.tag)

\* C8: GetEventsByTag(""), and with it GetEventsByDate("") and
\* GetEventsBySource(""), returns every stored event, and so the dashboard
\* with no filter lists every stored event.
C8_EmptyTagReturnsAll ==
    /\ IDsOf(GetEventsByTag(db, "").events) = DOMAIN db.events
    /\ IDsOf(GetEventsByDate(db, "").events) = DOMAIN db.events
    /\ IDsOf(GetEventsBySource(db, "").events) = DOMAIN db.events
    /\ (reply.op = "GET /" /\ reply.req = [tag |-> "", date |-> "", source |-> ""])
       => reply.status = 200 /\ IDsOf(reply.events) = DOMAIN db.events

\* data is the request's data without its trailing CR and LF characters
IsWithoutTrailingCRLF(data, requestData) ==
    /\ Len(data) <= Len(requestData)
    /\ SubSeq(requestData, 1, Len(data)) = data
    /\ \A i \in (Len(data) + 1)..Len(requestData) : Char(requestData, i) \in {"\r", "\n"}
    /\ Len(data) > 0 => Char(data, Len(data)) \notin {"\r", "\n"}

\* C9: while an event StoreEvent stored has not been updated or deleted,
\* GetEventByID of the id StoreEvent returned yields an event with that id,
\* the request's tags in their order, the request's source, and the request's
\* data without its trailing CR/LF; GET /api/events/:id answers 200 with it.
C9_StoreReadRoundTrip ==
    \A id \in DOMAIN stored :
        LET got == GetEventByID(db, id)
            request == stored[id].request
        IN  /\ stored[id].returned.ID = id
            /\ ~got.err
            /\ ~IsNil(got.event)
            /\ Val(got.event).ID = id
            /\ Val(got.event).Tags = request.Tags
            /\ Val(got.event).Source = request.Source
            /\ IsWithoutTrailingCRLF(Val(got.event).Data, request.Data)
            /\ (reply.op = "GET /api/events/:id" /\ reply.req.id = id)
               => reply.status = 200 /\ reply.event = got.event

\* an event whose tags hold a quote and whose data ended in CR/LF was stored
\* and then read through the API
C9_Witness ==
    /\ reply.op = "GET /api/events/:id"
    /\ reply.status = 200
    /\ reply.req.id \in DOMAIN stored
    /\ stored[reply.req.id].request.Tags = <<"a\"b", ",">>
    /\ stored[reply.req.id].request.Data # Val(reply.event).Data

\* the logs of the events other than id
LogsOfOthers(logs, id) == {<<l, logs[l]>> : l \in {k \in DOMAIN logs : logs[k].event_id # id}}

\* C10: once HandleDeleteEvent has succeeded for an id, no events row has that
\* id, no event_logs row has it as event_id, and GetEventByID and
\* GET /api/events/:id report it not found, from then on; the delete itself
\* leaves every other event and every other event's logs as they were.
C10_DeletedStaysGone ==
    /\ [](\A id \in deleted :
              /\ id \notin DOMAIN db.events
              /\ \A l \in DOMAIN db.event_logs : db.event_logs[l].event_id # id
              /\ IsNil(GetEventByID(db, id).event) /\ ~GetEventByID(db, id).err
              /\ (reply.op = "GET /api/events/:id" /\ reply.req.id = id) => reply.status = 404)
    /\ [][(reply'.op = "GET /events/{id}/delete" /\ reply'.flash = "Event deleted successfully")
            => /\ reply'.req.id \in DOMAIN db.events
               /\ DOMAIN db'.events = DOMAIN db.events \ {reply'.req.id}
               /\ \A j \in DOMAIN db'.events : db'.events[j] = db.events[j]
               /\ LogsOfOthers(db'.event_logs, reply'.req.id)
                      = LogsOfOthers(db.event_logs, reply'.req.id)
               /\ deleted' = deleted \cup {reply'.req.id}]_vars

\* an event and its log are gone, a later read of its id found nothing, and
\* another event and its log are still there
C10_Witness ==
    /\ reply.op = "GET /api/events/:id"
    /\ reply.req.id \in deleted
    /\ reply.status = 404
    /\ \E j \in DOMAIN db.events : \E l \in DOMAIN db.event_logs : db.event_logs[l].event_id = j
    /\ db.event_logs_id_seq > Cardinality(DOMAIN db.event_logs) + 1

----------------------------------------------------------------------------
(* Claims about text handling *)

\* C11 (as claimed): when the incoming body, trimmed, does not start with
\* "--", the receive handler stores the whole trimmed body as the data.
C11_PlainBodyStoredWhole ==
    (call.fn = "HandleEventReceive" /\ ~HasPrefix(TrimSpace(call.args[1]), "--"))
    => /\ call.result.status = 201
       /\ call.result.data = Some(TrimSpace(call.args[1]))

\* the parts, in body order, whose Content-Type starts with prefix
PartsOfType(parts, prefix) == SelectSeq(parts, LAMBDA p : HasPrefix(p.ct, prefix))

\* C12 (as claimed): for a multipart body with one or more text/plain parts,
\* ExtractPlain returns the trimmed content of the first text/plain part.
C12_FirstPlainPart ==
    (call.fn = "ExtractPlain" /\ Len(PartsOfType(call.args[2], "text/plain")) > 0)
    => /\ ~call.result.err
       /\ call.result.text = TrimSpace(PartsOfType(call.args[2], "text/plain")[1].body)

\* the parts that carry no attachment disposition and have a body
InlineParts(parts) ==
    SelectSeq(parts, LAMBDA p : ~HasPrefix(p.disposition, "attachment") /\ p.body # "")

\* C13 (as claimed): ExtractInlineMIMEParts returns, in body order, the
\* cleaned content of every part without an attachment disposition and with
\* a non-empty body, and nothing else.
C13_EveryInlinePart ==
    call.fn = "ExtractInlineMIMEParts"
    => call.result = [k \in 1..Len(InlineParts(call.args[2])) |->
                          cleanMessageContent(InlineParts(call.args[2])[k].body)]

\* C14 (as claimed): for a message and a type without "|", getFlash on the
\* request that carries the cookie setFlash wrote returns (message, type).
C14_FlashRoundTrip ==
    (call.fn = "getFlash" /\ ~Contains(call.args[1], "|") /\ ~Contains(call.args[2], "|"))
    => call.result = call.args

----------------------------------------------------------------------------
(* Claims about GET /api/events/:id                                        *)

\* the text is a base-10 integer of 64 bits: an optional sign, one or more
\* decimal digits, a value in -2^63 .. 2^63 - 1
IsInt64(s) ==
    LET signed == HasPrefix(s, "+") \/ HasPrefix(s, "-")
        digits == IF signed THEN From(s, 2) ELSE s
    IN  /\ digits # ""
        /\ \A i \in 1..Len(digits) : Char(digits, i) \in CharsOf(Digits)
        /\ ~ExceedsLimit(digits, IF HasPrefix(s, "-") THEN "9223372036854775808"
                                 ELSE "9223372036854775807")

\* the digits of a signed decimal number, without sign and leading zeros
Canonical(s) ==
    LET digits == IF HasPrefix(s, "+") \/ HasPrefix(s, "-") THEN From(s, 2) ELSE s
    IN  IF StripZeros(digits) = "" THEN "0" ELSE StripZeros(digits)

----------------------------------------------------------------------------
(* scripts/migrate.go: the migration script over a migrations directory     *)

\* the byte of a character of Ascii
ByteCode(c) == IndexByte(Ascii, c) + 31

\* a < b for Go strings: byte by byte, a proper prefix first
StringLess(a, b) ==
    \E i \in 1..Len(b) :
        /\ i <= Len(a) + 1
        /\ SubSeq(a, 1, i - 1) = SubSeq(b, 1, i - 1)
        /\ \/ i = Len(a) + 1
           \/ ByteCode(Char(a, i)) < ByteCode(Char(b, i))

\* sort.Strings(files), for files that differ from each other
RECURSIVE SortStrings(_)
SortStrings(files) ==
    IF files = {} THEN <<>>
    ELSE LET least == CHOOSE f \in files : \A g \in files \ {f} : StringLess(f, g)
         IN  <<least>> \o SortStrings(files \ {least})

\* filepath.Glob("migrations/*.sql") over the names in the directory
Glob(dir) == {"migrations/" \o name : name \in {n \in dir : HasSuffix(n, ".sql")}}

\* names a migrations directory may hold
FileNames == {"001_a.sql", "002_b.sql", "9_c.sql", "10_d.sql", "1_e.sql", "notes.txt"}
Directories == {dir \in SUBSET FileNames : Cardinality(dir) <= MaxFiles}

\* main up to the loop: list the directory, sort the list
StartMigrate(dir) ==
    /\ mig.state = "-"
    /\ mig' = [NoRun EXCEPT !.dir = dir, !.files = SortStrings(Glob(dir)), !.i = 1,
                            !.state = "running"]
    /\ UNCHANGED <<authVars, dbVars, call>>

\* one round of the loop over files: os.ReadFile, then db.Exec; log.Fatalf ends
\* the script when either fails
RunMigration(outcome) ==
    /\ mig.state = "running"
    /\ mig.i <= Len(mig.files)
    /\ mig' = IF outcome = "ok"
              THEN [mig EXCEPT !.executed = Append(@, mig.files[mig.i]), !.i = @ + 1]
              ELSE [mig EXCEPT !.failed = Some([file |-> mig.files[mig.i], at |-> outcome]),
                               !.state = "fatal"]
    /\ UNCHANGED <<authVars, dbVars, call>>

\* the loop is over: "All migrations completed successfully"
FinishMigrate ==
    /\ mig.state = "running"
    /\ mig.i > Len(mig.files)
    /\ mig' = [mig EXCEPT !.state = "done"]
    /\ UNCHANGED <<authVars, dbVars, call>>

\* the script has ended; it may be run again
ExitMigrate ==
    /\ mig.state \in {"done", "fatal"}
    /\ mig' = NoRun
    /\ UNCHANGED <<authVars, dbVars, call>>

InitMig ==
    /\ AuthIdle
    /\ DbIdle
    /\ LibIdle

NextMig ==
    \/ \E dir \in Directories : StartMigrate(dir)
    \/ \E outcome \in {"ok", "ReadFile", "Exec"} : RunMigration(outcome)
    \/ FinishMigrate
    \/ ExitMigrate

SpecMig == InitMig /\ [][NextMig]_vars

\* the number a migration's file name starts with: the digits before the
\* first character that is no digit
NumberPrefix(file) ==
    LET name == From(file, Len("migrations/") + 1)
        stops == {i \in 1..Len(name) : Char(name, i) \notin CharsOf(Digits)}
        end == IF stops = {} THEN Len(name)
               ELSE (CHOOSE i \in stops : \A j \in stops : i <= j) - 1
    IN  DigitsValue(SubSeq(name, 1, end), 1, 0)

\* C16 (as claimed): in a run of the script, the files executed so far are
\* files of migrations/*.sql, each executed once, in ascending order of their
\* file name's number prefix, and nothing is executed after a file that failed.
C16_PrefixOrder ==
    mig.state # "-"
    => /\ Range(mig.executed) \subseteq Glob(mig.dir)
       /\ \A i, j \in 1..Len(mig.executed) :
              i < j => /\ mig.executed[i] # mig.executed[j]
                       /\ NumberPrefix(mig.executed[i]) <= NumberPrefix(mig.executed[j])
       /\ mig.state = "done" => Range(mig.executed) = Glob(mig.dir)
       /\ mig.state = "fatal" => /\ ~IsNil(mig.failed)
                                 /\ Val(mig.failed).file \notin Range(mig.executed)

----------------------------------------------------------------------------
(* internal/web, the revision with HandleEventUpdate: the dashboard's       *)
(* handlers behind RequireAuth, for a request the middleware has let through *)

\* the route's pattern {id:[0-9]+}
MatchesIdPattern(idStr) ==
    /\ idStr # ""
    /\ \A i \in 1..Len(idStr) : Char(idStr, i) \in CharsOf(Digits)

\* protected.HandleFunc("/events/{id:[0-9]+}", h.HandleEventUpdate).Methods("POST", "PUT")
HandleEventUpdate(idStr, form, parses, fail) ==
    LET parsed == ParseInt(idStr)
        id == parsed.value
        tagsStr == form.tags
        tags == MapSeq(Fields(tagsStr), ToLower)
        existingEvent == GetEventByID(db, id)
        updatedEvent == [Tags |-> tags, Data |-> form.data, Source |-> form.source]
        st == StoreEvent(db, updatedEvent, dbClock, fail)
        h == [status |-> IF st.err THEN 500 ELSE 201, event |-> st.event,
              request |-> Some(updatedEvent)]
        request == [NoReply EXCEPT !.op = "POST /events/{id}",
                                   !.req = [param |-> idStr, id |-> id, form |-> form]]
        served == [request EXCEPT !.ran = TRUE]
        edit == "/events/" \o idStr \o "/edit"
    IN  /\ db.events_id_seq <= MaxEvents
        /\ IF ~MatchesIdPattern(idStr)
           THEN /\ reply' = [request EXCEPT !.status = 404]
                /\ UNCHANGED <<db, dbClock, stored>>
           ELSE IF ~parses \/ parsed.err # ""
           THEN /\ reply' = [served EXCEPT !.status = 400]
                /\ UNCHANGED <<db, dbClock, stored>>
           ELSE IF tagsStr = "" \/ form.source = "" \/ form.data = ""
           THEN /\ reply' = [served EXCEPT !.status = 303,
                                           !.flash = "All fields are required",
                                           !.location = edit]
                /\ UNCHANGED <<db, dbClock, stored>>
           ELSE IF existingEvent.err
           THEN /\ reply' = [served EXCEPT !.status = 500, !.query = Some(id)]
                /\ UNCHANGED <<db, dbClock, stored>>
           ELSE IF IsNil(existingEvent.event)
           THEN /\ reply' = [served EXCEPT !.status = 404, !.query = Some(id)]
                /\ UNCHANGED <<db, dbClock, stored>>
           ELSE IF st.err
           THEN /\ reply' = [served EXCEPT !.status = 303, !.query = Some(id),
                                           !.flash = "Failed to update event",
                                           !.location = edit]
                /\ db' = st.db
                /\ UNCHANGED <<dbClock, stored>>
           ELSE /\ reply' = [served EXCEPT !.status = 303, !.query = Some(id),
                                           !.flash = "Event updated successfully",
                                           !.location = "/events/" \o idStr,
                                           !.event = st.event]
                /\ db' = st.db
                /\ dbClock' = dbClock + 1
                /\ stored' = Remember(stored, h)
        /\ UNCHANGED <<APIToken, deleted, authVars, libVars>>

\* protected.HandleFunc("/events/{id:[0-9]+}", h.HandleEventDelete).Methods("DELETE")
HandleEventDelete(idStr, htmx) ==
    LET parsed == ParseInt(idStr)
        request == [NoReply EXCEPT !.op = "DELETE /events/{id}",
                                   !.req = [param |-> idStr, id |-> parsed.value,
                                            htmx |-> htmx]]
        served == [request EXCEPT !.ran = TRUE]
    IN  /\ reply' = IF ~MatchesIdPattern(idStr) THEN [request EXCEPT !.status = 404]
                    ELSE IF parsed.err # "" THEN [served EXCEPT !.status = 400]
                    ELSE IF htmx THEN [served EXCEPT !.status = 200]
                    ELSE [served EXCEPT !.status = 303,
                                        !.flash = "Event deleted successfully",
                                        !.location = "/events"]
        /\ UNCHANGED <<APIToken, db, dbClock, stored, deleted, authVars, libVars>>

\* the edit form of this revision, whether the request's body parses, and
\* whether the insert works
UpdateRequests ==
    << [form |-> [tags |-> "X y", source |-> "cron", data |-> "e"], parses |-> TRUE,
        fail |-> "none"],
       [form |-> [tags |-> "x", source |-> "", data |-> "e"], parses |-> TRUE,
        fail |-> "none"],
       [form |-> [tags |-> "X y", source |-> "cron", data |-> "e"], parses |-> FALSE,
        fail |-> "none"],
       [form |-> [tags |-> "X y", source |-> "cron", data |-> "e"], parses |-> TRUE,
        fail |-> "insert"] >>

NextWeb ==
    \/ \E r \in DOMAIN CreateRequests :
           HandleEventCreate(CreateRequests[r].form, CreateRequests[r].fail)
    \/ \E idStr \in IdParams, r \in DOMAIN UpdateRequests :
           HandleEventUpdate(idStr, UpdateRequests[r].form, UpdateRequests[r].parses,
                             UpdateRequests[r].fail)
    \/ \E idStr \in IdParams, htmx \in BOOLEAN : HandleEventDelete(idStr, htmx)

SpecWeb == InitDb /\ [][NextWeb]_vars

\* C17 (as claimed): an edit answered with the flash "Event updated
\* successfully" leaves the number of stored events as it was and leaves the
\* event of the request's id with the submitted tags, data and source.
C17_EditChangesTheEvent ==
    [][(reply'.op = "POST /events/{id}" /\ reply'.flash = "Event updated successfully")
       => /\ Cardinality(DOMAIN db'.events) = Cardinality(DOMAIN db.events)
          /\ reply'.req.id \in DOMAIN db'.events
          /\ db'.events[reply'.req.id].tags
                 = Marshal(MapSeq(Fields(reply'.req.form.tags), ToLower))
          /\ db'.events[reply'.req.id].data = reply'.req.form.data
          /\ db'.events[reply'.req.id].source = reply'.req.form.source]_vars

====
